---- MODULE Spec2Model ----
(***************************************************************************)
(* Model of the yt-transcriber backend handlers: URL normalisation and     *)
(* identifier extraction, the Piped / yt-dlp / ytdl-core audio handlers    *)
(* with their fallback loops and temp-directory handling, and the caption  *)
(* handlers.  Strings whose characters matter (URLs, identifiers) are      *)
(* sequences of one-character strings.                                     *)
(***************************************************************************)
EXTENDS Integers, Sequences, FiniteSets, TLC

VARIABLES
  u, uidIn, uwell, uid, unorm, upc,
  variant, pc, url, hasKey, debug, normalizedUrl, videoId, tmpDir, status, body,
  calls, attemptsLog, idx, langs, loop, produced, result, adapterUrl, failKind, hint,
  sent, timers,
  fn, farg, fout, fpc,
  deployed, reqs, defaultClient, binFile, writers,
  ui

uvars == <<u, uidIn, uwell, uid, unorm, upc>>
hvars == <<variant, pc, url, hasKey, debug, normalizedUrl, videoId, tmpDir, status, body,
           calls, attemptsLog, idx, langs, loop, produced, result, adapterUrl, failKind, hint,
           sent, timers>>
\* one application of a pure helper: its name, argument, result, position
pvars == <<fn, farg, fout, fpc>>
\* concurrent requests served by one process: the deployed handler, each
\* request's position, and what the requests share (the ytdl default client,
\* the yt-dlp binary file and the streams open on it)
\* ui is the state of the frontend component
cvars == <<deployed, reqs, defaultClient, binFile, writers, ui>>
vars == <<ui, deployed, reqs, defaultClient, binFile, writers, fn, farg, fout, fpc, u, uidIn, uwell, uid, unorm, upc,
          variant, pc, url, hasKey, debug, normalizedUrl, videoId, tmpDir, status, body,
          calls, attemptsLog, idx, langs, loop, produced, result, adapterUrl, failKind, hint,
           sent, timers>>

(***************************************************************************)
(* Bounds                                                                  *)
(***************************************************************************)
MaxIdLen == 2
NumRequests == 2
MaxSubmits == 3

(***************************************************************************)
(* String literals                                                         *)
(***************************************************************************)
\* "https://www.youtube.com/watch?v="
WATCH_PREFIX == <<"h", "t", "t", "p", "s", ":", "/", "/", "w", "w", "w", ".", "y", "o", "u", "t", "u", "b", "e", ".", "c", "o", "m", "/", "w", "a", "t", "c", "h", "?", "v", "=">>
\* "https://www.youtube.com/watch?t=5&v="
WATCH_PREFIX_2ND == <<"h", "t", "t", "p", "s", ":", "/", "/", "w", "w", "w", ".", "y", "o", "u", "t", "u", "b", "e", ".", "c", "o", "m", "/", "w", "a", "t", "c", "h", "?", "t", "=", "5", "&", "v", "=">>
\* "https://youtu.be/"
BE_PREFIX == <<"h", "t", "t", "p", "s", ":", "/", "/", "y", "o", "u", "t", "u", ".", "b", "e", "/">>
\* "https://www.youtube.com/shorts/"
SHORTS_PREFIX == <<"h", "t", "t", "p", "s", ":", "/", "/", "w", "w", "w", ".", "y", "o", "u", "t", "u", "b", "e", ".", "c", "o", "m", "/", "s", "h", "o", "r", "t", "s", "/">>
\* the regex literals  [?&]v=   youtu\.be\/   youtube\.com\/shorts\/
RE_V == {<<"?", "v", "=">>, <<"&", "v", "=">>}
RE_BE == {<<"y", "o", "u", "t", "u", ".", "b", "e", "/">>}
RE_SHORTS == {<<"y", "o", "u", "t", "u", "b", "e", ".", "c", "o", "m", "/", "s", "h", "o", "r", "t", "s", "/">>}
\* "dQw4w9WgXcQ" and "https://youtu.be/dQw4w9WgXcQ?feature=share"
ScenarioId == <<"d", "Q", "w", "4", "w", "9", "W", "g", "X", "c", "Q">>
ScenarioUrl == <<"h", "t", "t", "p", "s", ":", "/", "/", "y", "o", "u", "t", "u", ".", "b", "e", "/", "d", "Q", "w", "4", "w", "9", "W", "g", "X", "c", "Q", "?", "f", "e", "a", "t", "u", "r", "e", "=", "s", "h", "a", "r", "e">>
\* JS null / undefined / "" : all falsy in the `!x` tests of the handlers
Null == << >>

(***************************************************************************)
(* Regular-expression matching as String.prototype.match does it for the   *)
(* patterns  <literal>([^<stop>]+) : leftmost match start, greedy group.   *)
(***************************************************************************)
OccursAt(pat, s, i) ==
  /\ i >= 1
  /\ i + Len(pat) - 1 <= Len(s)
  /\ SubSeq(s, i, i + Len(pat) - 1) = pat

MatchStarts(pats, stop, s) ==
  { i \in 1..Len(s) : \E p \in pats :
       /\ OccursAt(p, s, i)
       /\ i + Len(p) <= Len(s)
       /\ s[i + Len(p)] # stop }

SetMin(S) == CHOOSE x \in S : \A y \in S : x <= y

\* faulty variant: the group does not stop at the delimiter but runs to the end
reMatchToEnd(pats, stop, s) ==
  LET starts == MatchStarts(pats, stop, s)
  IN  IF starts = {} THEN Null
      ELSE LET i == SetMin(starts)
               p == CHOOSE q \in pats : OccursAt(q, s, i)
           IN  SubSeq(s, i + Len(p), Len(s))

\* m[1] of s.match(/<pats>([^stop]+)/), Null when there is no match
reMatch(pats, stop, s) ==
  LET starts == MatchStarts(pats, stop, s)
  IN  IF starts = {} THEN Null
      ELSE LET i == SetMin(starts)
               p == CHOOSE q \in pats : OccursAt(q, s, i)
               b == i + Len(p)
               e == CHOOSE j \in b..Len(s) :
                      /\ \A k \in b..j : s[k] # stop
                      /\ (j = Len(s) \/ s[j + 1] = stop)
           IN  SubSeq(s, b, e)

extractVideoId(s) ==
  LET m1 == reMatch(RE_V, "&", s)
      m2 == reMatch(RE_BE, "?", s)
      m3 == reMatch(RE_SHORTS, "?", s)
  IN  IF m1 # Null THEN m1
      ELSE IF m2 # Null THEN m2
      ELSE IF m3 # Null THEN m3
      ELSE Null

normalizeYouTubeUrl(input) ==
  IF input = Null THEN input
  ELSE LET v  == reMatch(RE_V, "&", input)
           be == reMatch(RE_BE, "?", input)
           sh == reMatch(RE_SHORTS, "?", input)
       IN  IF v # Null THEN WATCH_PREFIX \o v
           ELSE IF be # Null THEN WATCH_PREFIX \o be
           ELSE IF sh # Null THEN WATCH_PREFIX \o sh
           ELSE input

(***************************************************************************)
(* Inputs of the URL helpers: the three shapes around an identifier, with  *)
(* and without further query parameters, and strings of no shape.          *)
(***************************************************************************)
IdChars == {"a", "v", "_", "7"}
Words(S, n) == UNION { [1..k -> S] : k \in 1..n }
Ids == Words(IdChars, MaxIdLen) \cup {ScenarioId}

SFX_AMP_T == <<"&", "t", "=", "5">>
SFX_AMP_T_S == <<"&", "t", "=", "5", "&", "s", "=", "1">>
SFX_AMP_S == <<"&", "s", "=", "1">>
SFX_Q_T == <<"?", "t", "=", "5">>
SFX_Q_FEATURE == <<"?", "f", "e", "a", "t", "u", "r", "e", "=", "s", "h", "a", "r", "e">>
SFX_Q_T_S == <<"?", "t", "=", "5", "&", "s", "=", "1">>
GARBAGE_URL == <<"h", "t", "t", "p", "s", ":", "/", "/", "e", "x", "a", "m", "p", "l", "e", ".", "c", "o", "m", "/", "x">>

\* well-formed: a further parameter follows v=ID after "&", a path ID after "?"
WellFormedCases ==
  { <<WATCH_PREFIX, Null>>, <<WATCH_PREFIX, SFX_AMP_T>>, <<WATCH_PREFIX, SFX_AMP_T_S>>,
    <<WATCH_PREFIX_2ND, Null>>, <<WATCH_PREFIX_2ND, SFX_AMP_S>>,
    <<BE_PREFIX, Null>>, <<BE_PREFIX, SFX_Q_T>>, <<BE_PREFIX, SFX_Q_FEATURE>>,
    <<BE_PREFIX, SFX_Q_T_S>>,
    <<SHORTS_PREFIX, Null>>, <<SHORTS_PREFIX, SFX_Q_T>>, <<SHORTS_PREFIX, SFX_Q_T_S>> }
\* the other delimiter right after the identifier
OtherDelimCases ==
  { <<WATCH_PREFIX, SFX_Q_T>>, <<BE_PREFIX, SFX_AMP_T>>, <<SHORTS_PREFIX, SFX_AMP_T>> }

BuildUrl(c, id) == c[1] \o id \o c[2]
NoShapeUrls == { Null, GARBAGE_URL, WATCH_PREFIX, BE_PREFIX }

Range(s) == { s[i] : i \in 1..Len(s) }

(***************************************************************************)
(* The helpers applied to one input string.                                *)
(***************************************************************************)
NoBody == [kind |-> "none", msg |-> "", attempts |-> Null]

Requests == 1..NumRequests

IdleReq == [pc |-> "idle", i |-> 0, client |-> "none", binAtExec |-> "none"]
NoFile == [content |-> "missing", exec |-> FALSE]

\* useState(""), useState(false), useState(""), useState(""); inflight and
\* issued count the fetches pending and made, last names the latest event
UiIdle == [url |-> << >>, loading |-> FALSE, error |-> "", text |-> "",
           inflight |-> 0, issued |-> 0, last |-> "none"]

ConcIdle ==
  /\ deployed = "none" /\ reqs = [r \in Requests |-> IdleReq]
  /\ defaultClient = "none" /\ binFile = NoFile /\ writers = {}
  /\ ui = UiIdle

PureIdle == fn = "none" /\ farg = Null /\ fout = Null /\ fpc = "idle"

HandlerIdle ==
  /\ variant = "none" /\ pc = "idle" /\ url = Null /\ hasKey = FALSE /\ debug = FALSE
  /\ normalizedUrl = Null /\ videoId = Null /\ tmpDir = "none" /\ status = 0
  /\ body = NoBody /\ calls = << >> /\ attemptsLog = << >> /\ idx = 0
  /\ langs = 0 /\ loop = "none"
  /\ produced = << >> /\ result = "" /\ adapterUrl = Null
  /\ failKind = "none" /\ hint = FALSE /\ sent = 0 /\ timers = 0

UrlInit ==
  /\ \/ \E id \in Ids : \E c \in WellFormedCases :
          u = BuildUrl(c, id) /\ uidIn = id /\ uwell = TRUE
     \/ \E id \in Ids : \E c \in OtherDelimCases :
          u = BuildUrl(c, id) /\ uidIn = id /\ uwell = FALSE
     \/ \E g \in NoShapeUrls : u = g /\ uidIn = Null /\ uwell = FALSE
  /\ uid = Null /\ unorm = Null /\ upc = "input"
  /\ HandlerIdle
  /\ PureIdle
  /\ ConcIdle

ApplyExtractVideoId ==
  /\ upc = "input"
  /\ uid' = extractVideoId(u)
  /\ upc' = "extracted"
  /\ UNCHANGED <<u, uidIn, uwell, unorm>>
  /\ UNCHANGED hvars
  /\ UNCHANGED pvars
  /\ UNCHANGED cvars

ApplyNormalizeYouTubeUrl ==
  /\ upc = "extracted"
  /\ unorm' = normalizeYouTubeUrl(u)
  /\ upc' = "normalized"
  /\ UNCHANGED <<u, uidIn, uwell, uid>>
  /\ UNCHANGED hvars
  /\ UNCHANGED pvars
  /\ UNCHANGED cvars

UrlNext == ApplyExtractVideoId \/ ApplyNormalizeYouTubeUrl

SpecUrl == UrlInit /\ [][UrlNext]_vars

(***************************************************************************)
(* The request handlers.  One request is served by one handler variant;    *)
(* each action runs the handler from one await to the next.                *)
(***************************************************************************)
PipedVariants == {"piped_multi_log", "piped_multi", "piped_single"}
YtDlpVariants == {"ytdlp_standalone", "ytdlp_wrap", "ytdlp_express"}
YtdlVariants == {"ytdl_robust", "ytdl_express", "ytdl_plain"}
CaptionVariants == {"captions_multi", "captions_simple", "captions_extractor"}
GetVariants == PipedVariants \cup YtDlpVariants \cup YtdlVariants
\* the POST handler that downloads the audio itself and checks the result
WhisperVariants == {"whisper_post"}
Variants == GetVariants \cup CaptionVariants \cup WhisperVariants

\* mirror lists (their default values), client profiles, caption methods
DEFAULT_PIPED_BASES ==
  << "https://pipedapi.kavin.rocks", "https://pipedapi.tokhmi.xyz",
     "https://pipedapi.projectsegfau.lt", "https://pipedapi.lunar.icu",
     "https://pipedapi.12a.app", "https://piped-api.game.yt" >>
DEFAULT_PIPED_BASES_V2 ==
  << "https://pipedapi.kavin.rocks", "https://pipedapi.tokhmi.xyz",
     "https://pipedapi.12a.app", "https://piped-api.game.yt",
     "https://pipedapi.projectsegfau.lt" >>
PIPED_API_BASE == << "https://pipedapi.kavin.rocks" >>
PIPED_BASES(v) ==
  CASE v = "piped_multi_log" -> DEFAULT_PIPED_BASES
    [] v = "piped_multi" -> DEFAULT_PIPED_BASES_V2
    [] OTHER -> PIPED_API_BASE

clients(v) ==
  CASE v = "ytdl_robust" -> << "ANDROID", "WEB" >>
    [] v = "ytdl_express" -> << "ANDROID", "IOS", "WEB" >>
    [] OTHER -> << "default" >>

methods(v) ==
  CASE v = "captions_multi" ->
         << "youtube-transcript with lang", "youtube-transcript without lang",
            "youtube-transcript with different country", "fetchCaptionsDirectly",
            "listTranscripts" >>
    [] v = "captions_simple" ->
         << "fetchTranscript lang", "fetchTranscript any" >>
    [] OTHER -> << "getSubtitles" >>

\* at most this many languages are returned by listTranscripts
MaxLangs == 2

(***************************************************************************)
(* Stream descriptions a mirror can return, and pickAudioAndExt.           *)
(***************************************************************************)
\* the value of a decimal numeral (parseInt(s, 10) of a digit string); -1 when
\* s is not a non-empty digit string
DigitVal(c) ==
  CASE c = "0" -> 0 [] c = "1" -> 1 [] c = "2" -> 2 [] c = "3" -> 3 [] c = "4" -> 4
    [] c = "5" -> 5 [] c = "6" -> 6 [] c = "7" -> 7 [] c = "8" -> 8 [] c = "9" -> 9
    [] OTHER -> -1
RECURSIVE ParseNat(_)
ParseNat(s) ==
  IF s = << >> THEN -1
  ELSE IF Len(s) = 1 THEN DigitVal(s[1])
  ELSE LET hd == ParseNat(SubSeq(s, 1, Len(s) - 1))
           d == DigitVal(s[Len(s)])
       IN  IF hd < 0 \/ d < 0 THEN -1 ELSE 10 * hd + d

\* String.prototype.includes
includes(s, pat) == \E i \in 1..Len(s) : OccursAt(pat, s, i)

\* String.prototype.toLowerCase, on the letters the inputs use
lowerChar(c) ==
  CASE c = "A" -> "a" [] c = "E" -> "e" [] c = "B" -> "b" [] c = "M" -> "m"
    [] c = "P" -> "p" [] c = "W" -> "w" [] c = "O" -> "o" [] c = "G" -> "g"
    [] OTHER -> c
toLowerCase(s) == [i \in 1..Len(s) |-> lowerChar(s[i])]

\* s.match(/(\d+)/)[1]: the leftmost maximal run of digits; << >> when no match
firstDigits(s) ==
  LET starts == { i \in 1..Len(s) : DigitVal(s[i]) >= 0 }
  IN  IF starts = {} THEN << >>
      ELSE LET a == SetMin(starts)
               b == CHOOSE j \in a..Len(s) :
                      /\ \A k \in a..j : DigitVal(s[k]) >= 0
                      /\ (j = Len(s) \/ DigitVal(s[j + 1]) < 0)
           IN  SubSeq(s, a, b)

\* a string literal of the source as its sequence of characters
Str(lit) ==
  CASE lit = "&amp;" -> <<"&", "a", "m", "p", ";">>
    [] lit = "&lt;" -> <<"&", "l", "t", ";">>
    [] lit = "&gt;" -> <<"&", "g", "t", ";">>
    [] lit = "&#39;" -> <<"&", "#", "3", "9", ";">>
    [] lit = "&quot;" -> <<"&", "q", "u", "o", "t", ";">>
    [] lit = "64 kbps" -> <<"6", "4", " ", "k", "b", "p", "s">>
    [] lit = "96kbps" -> <<"9", "6", "k", "b", "p", "s">>
    [] lit = "WEBM" -> <<"W", "E", "B", "M">>
    [] lit = "aac" -> <<"a", "a", "c">>
    [] lit = "audio/aac" -> <<"a", "u", "d", "i", "o", "/", "a", "a", "c">>
    [] lit = "audio/flac" -> <<"a", "u", "d", "i", "o", "/", "f", "l", "a", "c">>
    [] lit = "audio/mp3" -> <<"a", "u", "d", "i", "o", "/", "m", "p", "3">>
    [] lit = "audio/mp4" -> <<"a", "u", "d", "i", "o", "/", "m", "p", "4">>
    [] lit = "audio/mpeg" -> <<"a", "u", "d", "i", "o", "/", "m", "p", "e", "g">>
    [] lit = "audio/ogg" -> <<"a", "u", "d", "i", "o", "/", "o", "g", "g">>
    [] lit = "audio/ogg; codecs=opus" -> <<"a", "u", "d", "i", "o", "/", "o", "g", "g", ";", " ", "c", "o", "d", "e", "c", "s", "=", "o", "p", "u", "s">>
    [] lit = "audio/webm" -> <<"a", "u", "d", "i", "o", "/", "w", "e", "b", "m">>
    [] lit = "audio/webm; codecs=opus" -> <<"a", "u", "d", "i", "o", "/", "w", "e", "b", "m", ";", " ", "c", "o", "d", "e", "c", "s", "=", "o", "p", "u", "s">>
    [] lit = "audio/x-m4a" -> <<"a", "u", "d", "i", "o", "/", "x", "-", "m", "4", "a">>
    [] lit = "kbps" -> <<"k", "b", "p", "s">>
    [] lit = "m4a" -> <<"m", "4", "a">>
    [] lit = "mp3" -> <<"m", "p", "3">>
    [] lit = "mp4" -> <<"m", "p", "4">>
    [] lit = "mpeg" -> <<"m", "p", "e", "g">>
    [] lit = "ogg" -> <<"o", "g", "g">>
    [] lit = "opus" -> <<"o", "p", "u", "s">>
    [] lit = "webm" -> <<"w", "e", "b", "m">>

\* bitrate values as a mirror's JSON can carry them
NumBr(n) == [t |-> "number", n |-> n, s |-> << >>]
StrBr(s) == [t |-> "string", n |-> 0, s |-> s]
NoBr == [t |-> "undefined", n |-> 0, s |-> << >>]

\* one entry of audioStreams; << >> is a field that is absent
Stream(u0, br, mime, codec, container) ==
  [url |-> u0, bitrate |-> br, mimeType |-> mime, type |-> << >>, codec |-> codec,
   container |-> container]

StreamA == Stream("urlA", NumBr(128), Str("audio/webm"), Str("opus"), << >>)
StreamB == Stream("urlB", NumBr(64), Str("audio/mp4"), << >>, << >>)
StreamNoUrl == Stream("", NumBr(128), Str("audio/webm"), << >>, << >>)

\* a field of the streams JSON: absent, an array, or some other (truthy) value
Absent == [kind |-> "absent", items |-> << >>]
Arr(items) == [kind |-> "array", items |-> items]
NotArray == [kind |-> "object", items |-> << >>]
Json(a, b) == [audioStreams |-> a, audio |-> b]

\* the JSON documents the mirrors of the handler model answer with
JsonOf(name) ==
  CASE name = "json_a" -> Json(Arr(<< StreamA >>), Absent)
    [] name = "json_ba" -> Json(Arr(<< StreamB, StreamA >>), Absent)
    [] name = "json_nourl" -> Json(Arr(<< StreamNoUrl >>), Absent)
    [] name = "json_noaudio" -> Json(Arr(<< >>), Absent)
    [] OTHER -> Json(Absent, Absent)

\* streamsJson?.audioStreams || streamsJson?.audio || []
audioStreams(json) ==
  IF json.audioStreams.kind # "absent" THEN json.audioStreams
  ELSE IF json.audio.kind # "absent" THEN json.audio
  ELSE Arr(<< >>)

\* the __br the map() step computes for an entry
parsedBitrate(s) ==
  IF s.bitrate.t = "number" THEN s.bitrate.n
  ELSE IF s.bitrate.t = "string" /\ firstDigits(s.bitrate.s) # << >>
         THEN ParseNat(firstDigits(s.bitrate.s))
  ELSE 0

\* faulty variant: ascending order, the lowest bitrate comes first
sortedFirstAscending(items) ==
  CHOOSE k \in 1..Len(items) :
    /\ \A j \in 1..Len(items) : parsedBitrate(items[j]) >= parsedBitrate(items[k])
    /\ \A j \in 1..(k - 1) : parsedBitrate(items[j]) > parsedBitrate(items[k])

\* index of the entry sort((a,b) => b.__br - a.__br) puts first: the sort is
\* stable, so the earliest of the entries with the highest __br
sortedFirst(items) ==
  CHOOSE k \in 1..Len(items) :
    /\ \A j \in 1..Len(items) : parsedBitrate(items[j]) <= parsedBitrate(items[k])
    /\ \A j \in 1..(k - 1) : parsedBitrate(items[j]) < parsedBitrate(items[k])

\* the extension inferred for the chosen entry
MimeExt(chosen) ==
  LET mime == toLowerCase(IF chosen.mimeType # << >> THEN chosen.mimeType ELSE chosen.type)
      codec == toLowerCase(chosen.codec)
      container == toLowerCase(chosen.container)
  IN  IF includes(mime, Str("mp4")) \/ includes(mime, Str("m4a")) \/ includes(container, Str("mp4"))
           \/ includes(codec, Str("aac")) THEN "m4a"
      ELSE IF includes(mime, Str("mp3")) THEN "mp3"
      ELSE IF includes(mime, Str("ogg")) \/ includes(mime, Str("opus")) THEN "webm"
      ELSE "webm"

\* the record with url "" and ext "" stands for `null`; a chosen entry
\* without url keeps url "" with its ext
pickAudioAndExt(streamsJson) ==
  LET list == audioStreams(streamsJson)
  IN  IF list.kind # "array" \/ list.items = << >> THEN [url |-> "", ext |-> ""]
      ELSE LET chosen == list.items[sortedFirst(list.items)]
           IN  [url |-> chosen.url, ext |-> MimeExt(chosen)]

MirrorJsons == {"json_null", "json_noaudio", "json_nourl", "json_a", "json_ba"}
\* "HTTP error" stands for a non-OK status and for a body that is not JSON
MirrorErrors == {"HTTP error", "timeout"}
IsError(p) == p \in MirrorErrors \cup {"error"}

(***************************************************************************)
(* Requests                                                                *)
(***************************************************************************)
\* "https://youtu.be/av": a recognised shape around a two-character identifier
SHORT_ID_URL == BE_PREFIX \o <<"a", "v">>

\* among them "https://youtu.be/dQw4w9WgXcQ&t=5"
HandlerUrls ==
  { Null, GARBAGE_URL, BE_PREFIX,
    WATCH_PREFIX \o ScenarioId, ScenarioUrl,
    SHORTS_PREFIX \o ScenarioId \o SFX_Q_T,
    BE_PREFIX \o ScenarioId \o SFX_AMP_T,
    SHORT_ID_URL }

UrlIdle ==
  /\ u = Null /\ uidIn = Null /\ uwell = FALSE /\ uid = Null /\ unorm = Null
  /\ upc = "idle"

Init ==
  /\ UrlIdle
  /\ PureIdle
  /\ ConcIdle
  /\ variant \in Variants
  /\ pc = "start"
  /\ hasKey \in BOOLEAN
  /\ debug \in (IF variant = "piped_multi_log" THEN BOOLEAN ELSE {FALSE})
  /\ IF variant \in CaptionVariants \cup WhisperVariants
       THEN url = Null /\ videoId \in {Null, ScenarioId}
       ELSE url \in HandlerUrls /\ videoId = Null
  /\ normalizedUrl = Null /\ tmpDir = "none" /\ status = 0
  /\ body = NoBody /\ calls = << >> /\ attemptsLog = << >> /\ idx = 0
  /\ langs = 0 /\ loop = "none"
  /\ produced = << >> /\ result = "" /\ adapterUrl = Null
  /\ failKind = "none" /\ hint = FALSE /\ sent = 0 /\ timers = 0

Req ==
  /\ UNCHANGED <<variant, url, hasKey, debug>> /\ UNCHANGED uvars /\ UNCHANGED pvars
  /\ UNCHANGED cvars

\* a step that arms and clears no timer
ReqNoTimer == Req /\ UNCHANGED timers

\* faulty variant: the missing-key response is sent without `return`, the
\* handler goes on to its first stage
returnsExceptMissingKey(v, fk) == IF fk = "missing_key" THEN "proceed" ELSE "done"

\* `return res.status(...).json(...)`: the response ends the handler
returns(v, fk) == "done"

\* res.status(st).json({ error: msg, attempts?: att, hint? }); sent counts the
\* responses written
Respond(st, msg, att, fk, h) ==
  /\ sent' = sent + 1
  /\ status' = st
  /\ body' = [kind |-> IF st >= 400 THEN "error" ELSE "ok", msg |-> msg, attempts |-> att]
  /\ failKind' = fk
  /\ hint' = h
  /\ pc' = returns(variant, fk)

NoResponse == UNCHANGED <<status, body, failKind, hint, sent>>

\* what the speech-to-text call yields: an error, or a text, told apart by
\* its length: empty, one character short of the threshold, at the threshold
MIN_TRANSCRIPT_LENGTH == 50
TranscriptionResults == {"error", "transcript_empty", "transcript_short", "transcript"}
TextLength(tr) ==
  CASE tr = "transcript_empty" -> 0
    [] tr = "transcript_short" -> MIN_TRANSCRIPT_LENGTH - 1
    [] tr = "transcript" -> MIN_TRANSCRIPT_LENGTH

\* faulty variant: the `if (!videoId) return 400` line is missing
validateNoIdCheck(valid) ==
  IF url = Null THEN "no_url"
  ELSE IF ~hasKey THEN "no_key"
  ELSE IF variant \in YtdlVariants /\ ~valid THEN "unsupported"
  ELSE "proceed"

\* the checks every GET /transcript handler starts with; `valid` is the
\* answer of ytdl.validateURL (library code), asked by the ytdl variants only
validate(valid) ==
  IF url = Null THEN "no_url"
  ELSE IF extractVideoId(normalizeYouTubeUrl(url)) = Null THEN "bad_url"
  ELSE IF ~hasKey THEN "no_key"
  ELSE IF variant \in YtdlVariants /\ ~valid THEN "unsupported"
  ELSE "proceed"

FirstStage(v) ==
  IF v \in PipedVariants THEN "streams"
  ELSE IF v \in {"ytdlp_standalone", "ytdlp_wrap"} THEN "ensure"
  ELSE IF v = "ytdlp_express" THEN "exec"
  ELSE "getinfo"

Validate ==
  /\ pc = "start" /\ variant \in GetVariants
  /\ ReqNoTimer
  /\ UNCHANGED <<calls, attemptsLog, langs, produced, result, adapterUrl>>
  /\ \E valid \in BOOLEAN :
       LET o == validate(valid)
           n == normalizeYouTubeUrl(url)
       IN  /\ normalizedUrl' = IF o = "no_url" THEN normalizedUrl ELSE n
           /\ videoId' = IF o = "no_url" THEN videoId ELSE extractVideoId(n)
           /\ CASE o = "no_url" ->
                     Respond(400, "Provide ?url=", Null, "invalid_input", FALSE)
                [] o = "bad_url" ->
                     Respond(400, "Invalid YouTube URL", Null, "invalid_input", FALSE)
                [] o = "no_key" ->
                     Respond(400, "OPENAI_API_KEY is missing", Null, "missing_key", FALSE)
                [] o = "unsupported" ->
                     Respond(400, "Invalid or unsupported YouTube URL", Null,
                             "invalid_input", FALSE)
                [] OTHER -> pc' = FirstStage(variant) /\ NoResponse
           /\ idx' = IF o = "proceed" THEN 1 ELSE idx
           /\ loop' = IF o = "proceed" /\ variant \in PipedVariants \cup YtdlVariants
                        THEN "running" ELSE loop
           \* the express yt-dlp handler holds the downloader from start-up and
           \* creates its temp dir right after the checks
           /\ tmpDir' = IF o = "proceed" /\ variant = "ytdlp_express"
                          THEN "exists" ELSE tmpDir

(***************************************************************************)
(* Fallback loops: when does an iteration return from the loop.            *)
(***************************************************************************)
\* faulty variant: the `return` inside the loop body is lost, the loop runs to its end
loopReturnsAtEndOnly(v, out, last) ==
  /\ ~IsError(out)
  /\ last

\* the iteration returns when the awaited call did not throw; the second
\* multi-mirror handler also wants a truthy json (`if (json) return json`)
loopReturns(v, out, last) ==
  /\ ~IsError(out)
  /\ (v = "piped_multi" => out # "json_null")

(***************************************************************************)
(* Piped handlers                                                          *)
(***************************************************************************)
\* which call sites pass an AbortSignal with a timer (toMsTimeout): the mirror
\* query and the audio fetch of the two multi-mirror Piped handlers
explicitDeadline(v, kind) ==
  /\ v \in {"piped_multi_log", "piped_multi"}
  /\ kind \in {"mirror", "audio"}

\* toMsTimeout(ms): setTimeout arms one more abort timer
toMsTimeout(t) == t + 1

\* faulty variant: clear() as the last statement of the try block, skipped
\* when the block throws
clearAtEndOfTry(t, threw) == IF threw THEN t ELSE t - 1

\* finally { clear() }: clearTimeout on the way out of the try block, by
\* return or by throw
finallyClear(t, threw) == t - 1

\* faulty variant: a mirror that timed out ends the loop
mirrorLoopEndsOnTimeout(out, last) == last \/ out = "timeout"

\* a failed mirror ends the loop (and the throw after it is reached) only when
\* it was the last of PIPED_BASES
mirrorLoopEnds(out, last) == last

\* faulty variant: the failed mirror is queried again
retryMirror(i) == i

\* `for (const base of PIPED_BASES)`: the next iteration takes the next mirror
nextMirror(i) == i + 1

\* attemptsLog.push(...), kept by the first multi-mirror handler only
pushAttempt(v, log, base, out) ==
  IF v # "piped_multi_log" THEN log
  ELSE IF IsError(out) THEN Append(log, [base |-> base, ok |-> FALSE, error |-> out])
  ELSE Append(log, [base |-> base, ok |-> TRUE, error |-> ""])

\* payload.attempts is set only under debug
Attempts(log) == IF debug THEN log ELSE Null

\* one mirror query of getPipedStreams and, when the loop ends with it, the
\* handler up to its next await (pickAudioAndExt, mkdtempSync)
GetPipedStreams ==
  /\ pc = "streams" /\ variant \in PipedVariants
  /\ Req
  /\ UNCHANGED <<normalizedUrl, videoId, langs, adapterUrl>>
  /\ \E out \in MirrorJsons \cup MirrorErrors :
       LET bases == PIPED_BASES(variant)
           last == (idx = Len(bases))
           log == pushAttempt(variant, attemptsLog, bases[idx], out)
           chosen == pickAudioAndExt(JsonOf(out))
       IN  /\ calls' = Append(calls, <<"mirror", bases[idx]>>)
           /\ timers' = IF explicitDeadline(variant, "mirror")
                           THEN finallyClear(toMsTimeout(timers), IsError(out))
                           ELSE timers
           /\ produced' = Append(produced, out)
           /\ attemptsLog' = log
           /\ IF loopReturns(variant, out, last)
                THEN /\ result' = out /\ loop' = "returned" /\ idx' = idx
                     /\ IF chosen.url = ""
                          THEN /\ Respond(502, "No audio streams available from Piped",
                                          Attempts(log), "acquisition", FALSE)
                               /\ tmpDir' = tmpDir
                          ELSE /\ tmpDir' = "exists"
                               /\ pc' = "download"
                               /\ NoResponse
                ELSE IF ~mirrorLoopEnds(out, last)
                  THEN /\ idx' = nextMirror(idx)
                       /\ UNCHANGED <<result, loop, tmpDir, pc>>
                       /\ NoResponse
                  ELSE \* throw new Error("Piped streams fetch failed: ..."), caught
                       \* by the handler's outer catch, where attemptsLog is out of scope
                       /\ loop' = "exhausted"
                       /\ UNCHANGED <<result, idx, tmpDir>>
                       /\ Respond(500, "Piped streams fetch failed", Null,
                                  "acquisition", FALSE)

\* await fetch(chosen.url, { signal, ... })
PipedFetchAudio ==
  /\ pc = "download" /\ variant \in PipedVariants
  /\ Req
  /\ UNCHANGED <<normalizedUrl, videoId, langs, adapterUrl, attemptsLog, idx, loop,
                 produced, result>>
  /\ calls' = Append(calls, <<"audio", pickAudioAndExt(JsonOf(result)).url>>)
  /\ \E out \in {"ok", "not_ok", "throws"} :
     \* the timer armed before the fetch stays armed while the body is piped
     /\ timers' = IF ~explicitDeadline(variant, "audio") THEN timers
                   ELSE IF out = "ok" THEN toMsTimeout(timers)
                   ELSE finallyClear(toMsTimeout(timers), out = "throws")
     /\ CASE out = "ok" -> pc' = "pipeline" /\ tmpDir' = tmpDir /\ NoResponse
         [] out = "not_ok" ->
              \* rmSync, then 502
              /\ tmpDir' = "removed"
              /\ Respond(502, "Failed to download audio", Attempts(attemptsLog),
                         "acquisition", FALSE)
         [] OTHER ->
              \* network error or abort at the deadline: finally { clear() }, then
              \* the outer catch
              /\ tmpDir' = tmpDir
              /\ Respond(500, "fetch failed", Null, "acquisition", FALSE)

\* await pipeline(resp.body, fs.createWriteStream(filePath))
PipedPipeline ==
  /\ pc = "pipeline" /\ variant \in PipedVariants
  /\ Req
  /\ UNCHANGED <<normalizedUrl, videoId, langs, adapterUrl, attemptsLog, idx, loop,
                 produced, result, calls, tmpDir>>
  /\ \E ok \in BOOLEAN :
     /\ timers' = IF explicitDeadline(variant, "audio")
                     THEN finallyClear(timers, ~ok) ELSE timers
     /\ IF ok THEN pc' = "transcribe" /\ NoResponse
        ELSE Respond(500, "pipeline failed", Null, "acquisition", FALSE)

\* await openai.audio.transcriptions.create(...)
PipedTranscribe ==
  /\ pc = "transcribe" /\ variant \in PipedVariants
  /\ ReqNoTimer
  /\ UNCHANGED <<normalizedUrl, videoId, langs, adapterUrl, attemptsLog, idx, loop,
                 produced, result>>
  /\ calls' = Append(calls, <<"whisper", "">>)
  /\ \E tr \in TranscriptionResults :
     LET ok == tr # "error" IN
       IF ok
         THEN /\ tmpDir' = "removed"
              /\ Respond(200, tr, Null, "none", FALSE)
         ELSE \* only the first handler wraps the call in its own try/catch
              /\ tmpDir' = IF variant = "piped_multi_log" THEN "removed" ELSE tmpDir
              /\ Respond(500, "Transcription failed",
                         IF variant = "piped_multi_log" THEN Attempts(attemptsLog) ELSE Null,
                         "transcription", FALSE)

(***************************************************************************)
(* yt-dlp handlers                                                         *)
(***************************************************************************)
\* fs.existsSync(binPath), and the download of the binary when it is missing
EnsureYtDlp ==
  /\ pc = "ensure" /\ variant \in {"ytdlp_standalone", "ytdlp_wrap"}
  /\ ReqNoTimer
  /\ UNCHANGED <<normalizedUrl, videoId, langs, adapterUrl, attemptsLog, idx, loop,
                 produced, result>>
  /\ \E out \in {"present", "downloaded", "download_failed"} :
       /\ calls' = IF out = "present" THEN calls
                   ELSE Append(calls, <<"binary", "yt-dlp">>)
       /\ IF out = "download_failed"
            THEN /\ tmpDir' = tmpDir
                 /\ Respond(500, "Failed to download yt-dlp binary", Null, "service", FALSE)
            ELSE /\ tmpDir' = "exists"
                 /\ pc' = "exec"
                 /\ NoResponse

\* await ytDlp.execPromise([... , normalizedUrl]) and the file selection after it
YtDlpExec ==
  /\ pc = "exec" /\ variant \in YtDlpVariants
  /\ ReqNoTimer
  /\ UNCHANGED <<normalizedUrl, videoId, langs, attemptsLog, idx, loop, produced, result>>
  /\ calls' = Append(calls, <<"yt-dlp", "normalizedUrl">>)
  /\ adapterUrl' = normalizedUrl
  /\ \E out \in {"exec_failed", "fs_throws", "no_audio_file", "audio_file"} :
       CASE out = "exec_failed" ->
              \* the express handler has no try/catch of its own around execPromise
              /\ tmpDir' = IF variant = "ytdlp_express" THEN tmpDir ELSE "removed"
              /\ Respond(500, "yt-dlp failed", Null, "acquisition", FALSE)
         [] out = "fs_throws" ->
              \* readdirSync / statSync throws: outer catch
              /\ tmpDir' = tmpDir
              /\ Respond(500, "readdir failed", Null, "service", FALSE)
         [] out = "no_audio_file" ->
              /\ tmpDir' = "removed"
              /\ Respond(500, "Download produced no supported audio file.", Null,
                         "acquisition", FALSE)
         [] OTHER -> pc' = "transcribe" /\ tmpDir' = tmpDir /\ NoResponse

\* await openai.audio.transcriptions.create(...), not in a try/catch of its own
YtDlpTranscribe ==
  /\ pc = "transcribe" /\ variant \in YtDlpVariants
  /\ ReqNoTimer
  /\ UNCHANGED <<normalizedUrl, videoId, langs, adapterUrl, attemptsLog, idx, loop,
                 produced, result>>
  /\ calls' = Append(calls, <<"whisper", "">>)
  /\ \E tr \in TranscriptionResults :
     LET ok == tr # "error" IN
       IF ok
         THEN /\ tmpDir' = "removed"
              /\ Respond(200, tr, Null, "none", FALSE)
         ELSE /\ tmpDir' = tmpDir
              /\ Respond(500, "Transcription failed", Null, "transcription", FALSE)

(***************************************************************************)
(* ytdl-core handlers                                                      *)
(***************************************************************************)
InfoResults == {"info_a", "info_b", "info_noformat"}

\* one getInfo call (per client profile in getInfoRobust) and, when the loop ends
\* with it, the handler up to its next await (chooseFormat, mkdtempSync)
GetInfoRobust ==
  /\ pc = "getinfo" /\ variant \in YtdlVariants
  /\ ReqNoTimer
  /\ UNCHANGED <<normalizedUrl, videoId, langs, attemptsLog>>
  /\ \E out \in InfoResults \cup {"error"} :
       LET cs == clients(variant)
           last == (idx = Len(cs))
       IN  /\ calls' = Append(calls, <<"getInfo", cs[idx]>>)
           /\ adapterUrl' = normalizedUrl
           /\ produced' = Append(produced, out)
           /\ IF loopReturns(variant, out, last)
                THEN /\ result' = out /\ loop' = "returned" /\ idx' = idx
                     /\ IF out = "info_noformat"
                          THEN /\ Respond(502, "No suitable audio format found from YouTube.",
                                          Null, "acquisition", FALSE)
                               /\ tmpDir' = tmpDir
                          ELSE /\ tmpDir' = "exists"
                               /\ pc' = "download"
                               /\ NoResponse
                ELSE IF ~last
                  THEN /\ idx' = idx + 1
                       /\ UNCHANGED <<result, loop, tmpDir, pc>>
                       /\ NoResponse
                  ELSE /\ loop' = "exhausted"
                       /\ UNCHANGED <<result, idx, tmpDir>>
                       /\ Respond(502, "ytdl getInfo failed", Null, "acquisition",
                                  variant = "ytdl_express")

\* await pipeline(ytdl.downloadFromInfo(...), fs.createWriteStream(filePath))
YtdlDownload ==
  /\ pc = "download" /\ variant \in YtdlVariants
  /\ ReqNoTimer
  /\ UNCHANGED <<normalizedUrl, videoId, langs, adapterUrl, attemptsLog, idx, loop,
                 produced, result>>
  /\ calls' = Append(calls, <<"audio", result>>)
  /\ \E ok \in BOOLEAN :
       IF ok THEN pc' = "transcribe" /\ tmpDir' = tmpDir /\ NoResponse
       ELSE /\ tmpDir' = "removed"
            /\ Respond(502, "Audio download failed", Null, "acquisition", FALSE)

\* faulty variant: the catch around the transcription call does not remove
\* the temp directory
rmSyncOnSuccessOnly(ok, dir) == IF ok THEN "removed" ELSE dir

\* fs.rmSync(tmpDir, {recursive: true, force: true}) in the catch around the
\* transcription call and after it
rmSyncAfterTranscription(ok, dir) == "removed"

YtdlTranscribe ==
  /\ pc = "transcribe" /\ variant \in YtdlVariants
  /\ ReqNoTimer
  /\ UNCHANGED <<normalizedUrl, videoId, langs, adapterUrl, attemptsLog, idx, loop,
                 produced, result>>
  /\ calls' = Append(calls, <<"whisper", "">>)
  /\ \E tr \in TranscriptionResults :
     LET ok == tr # "error" IN
     /\ tmpDir' = rmSyncAfterTranscription(ok, tmpDir)
     /\ IF ok THEN Respond(200, tr, Null, "none", FALSE)
       ELSE Respond(500, "Transcription failed", Null, "transcription", FALSE)

(***************************************************************************)
(* Caption handlers (POST, the identifier comes in the request body)       *)
(***************************************************************************)
Transcripts == {"t_empty", "t_one", "t_three"}

CaptionsValidate ==
  /\ pc = "start" /\ variant \in CaptionVariants
  /\ ReqNoTimer
  /\ UNCHANGED <<normalizedUrl, videoId, langs, adapterUrl, attemptsLog, produced,
                 result, calls, tmpDir>>
  /\ IF videoId = Null
       THEN /\ Respond(400, "Missing required parameter: videoId", Null,
                       "invalid_input", FALSE)
            /\ UNCHANGED <<idx, loop>>
       ELSE /\ pc' = "captions" /\ idx' = 1 /\ loop' = "running"
            /\ NoResponse

\* the handler after getTranscriptFromYouTube has returned r
CaptionsFinish(r) ==
  IF r = "t_empty"
    THEN Respond(500, "No transcript data received", Null, "acquisition", TRUE)
    ELSE Respond(200, "transcript", Null, "none", FALSE)

\* the handler's catch answering without the hint field
CaptionsFailedNoHint ==
  Respond(500, "Transcript extraction failed", Null, "acquisition", FALSE)

\* getTranscriptFromYouTube has thrown: the handler's catch
CaptionsFailed ==
  Respond(500, "Transcript extraction failed", Null, "acquisition", TRUE)

\* one caption method (library call or direct scrape)
TryCaptionMethod ==
  /\ pc = "captions" /\ variant \in CaptionVariants
  /\ methods(variant)[idx] # "listTranscripts"
  /\ ReqNoTimer
  /\ UNCHANGED <<normalizedUrl, videoId, langs, adapterUrl, attemptsLog, tmpDir>>
  /\ \E out \in Transcripts \cup {"error"} :
       LET m == methods(variant)[idx]
           last == (idx = Len(methods(variant)))
       IN  \* fetchCaptionsDirectly throws rather than return an empty list
           /\ (m = "fetchCaptionsDirectly" => out # "t_empty")
           /\ calls' = Append(calls, <<"caption", m>>)
           /\ produced' = Append(produced, out)
           /\ IF loopReturns(variant, out, last)
                THEN /\ result' = out /\ loop' = "returned" /\ idx' = idx
                     /\ IF variant = "captions_extractor"
                          THEN pc' = "details" /\ NoResponse
                          ELSE CaptionsFinish(out)
                ELSE IF ~last
                  THEN /\ idx' = idx + 1
                       /\ UNCHANGED <<result, loop, pc>>
                       /\ NoResponse
                  ELSE /\ loop' = "exhausted"
                       /\ UNCHANGED <<result, idx>>
                       /\ CaptionsFailed

\* await YoutubeTranscript.listTranscripts(videoId)
ListTranscripts ==
  /\ pc = "captions" /\ variant \in CaptionVariants
  /\ methods(variant)[idx] = "listTranscripts"
  /\ ReqNoTimer
  /\ UNCHANGED <<normalizedUrl, videoId, adapterUrl, attemptsLog, tmpDir, produced,
                 result>>
  /\ calls' = Append(calls, <<"caption", "listTranscripts">>)
  /\ \E n \in 0..MaxLangs :
       IF n > 0
         THEN /\ langs' = n /\ idx' = 1 /\ pc' = "languages"
              /\ UNCHANGED loop
              /\ NoResponse
         ELSE \* the call threw, or there is no language to try
              /\ loop' = "exhausted"
              /\ UNCHANGED <<langs, idx>>
              /\ CaptionsFailed

\* await language.fetch() for the next listed language
TryLanguage ==
  /\ pc = "languages" /\ variant \in CaptionVariants
  /\ ReqNoTimer
  /\ UNCHANGED <<normalizedUrl, videoId, langs, adapterUrl, attemptsLog, tmpDir>>
  /\ \E out \in Transcripts \cup {"error"} :
       LET last == (idx = langs)
       IN  /\ calls' = Append(calls, <<"caption", "language.fetch">>)
           /\ produced' = Append(produced, out)
           /\ IF loopReturns(variant, out, last)
                THEN /\ result' = out /\ loop' = "returned" /\ idx' = idx
                     /\ CaptionsFinish(out)
                ELSE IF ~last
                  THEN /\ idx' = idx + 1
                       /\ UNCHANGED <<result, loop, pc>>
                       /\ NoResponse
                  ELSE /\ loop' = "exhausted"
                       /\ UNCHANGED <<result, idx>>
                       /\ CaptionsFailed

\* await getVideoDetails(...) of the caption-extractor handler
GetVideoDetails ==
  /\ pc = "details" /\ variant \in CaptionVariants
  /\ ReqNoTimer
  /\ UNCHANGED <<normalizedUrl, videoId, langs, adapterUrl, attemptsLog, tmpDir,
                 produced, result, idx, loop>>
  /\ calls' = Append(calls, <<"details", "getVideoDetails">>)
  /\ \E ok \in BOOLEAN :
       IF ok THEN CaptionsFinish(result) ELSE CaptionsFailed

(***************************************************************************)
(* The POST handler with its own audio download (extractRealTranscript-    *)
(* WithWhisper): no temp directory, the audio is held in memory.           *)
(***************************************************************************)
WhisperValidate ==
  /\ pc = "start" /\ variant \in WhisperVariants
  /\ ReqNoTimer
  /\ UNCHANGED <<normalizedUrl, videoId, langs, adapterUrl, attemptsLog, produced,
                 result, calls, tmpDir, idx, loop>>
  /\ IF videoId = Null
       THEN Respond(400, "Missing required parameter: videoId", Null,
                    "invalid_input", FALSE)
       ELSE pc' = "download" /\ NoResponse

\* downloadRealYouTubeAudio (page scrape, then ytdl-core when that throws), the
\* size check and the credential check
WhisperDownload ==
  /\ pc = "download" /\ variant \in WhisperVariants
  /\ ReqNoTimer
  /\ UNCHANGED <<normalizedUrl, videoId, langs, adapterUrl, attemptsLog, produced,
                 result, tmpDir, idx, loop>>
  /\ \E m1 \in {"error", "small", "audio"}, m2 \in {"error", "small", "audio"} :
       LET got == IF m1 = "error" THEN m2 ELSE m1
       IN  /\ calls' = IF m1 = "error"
                         THEN calls \o << <<"audio", "direct">>, <<"audio", "ytdl">> >>
                         ELSE Append(calls, <<"audio", "direct">>)
           /\ IF got = "error"
                THEN Respond(500, "All download methods failed", Null, "acquisition", FALSE)
              ELSE IF got = "small"
                THEN Respond(500, "Audio too small", Null, "acquisition", FALSE)
              ELSE IF ~hasKey
                THEN Respond(500, "OPENAI_API_KEY not found", Null, "missing_key", FALSE)
              ELSE pc' = "transcribe" /\ NoResponse

\* the Whisper call succeeded and `!text || text.length < 50` is false
whisperAccepts(tr) == tr # "error" /\ TextLength(tr) >= MIN_TRANSCRIPT_LENGTH

WhisperTranscribe ==
  /\ pc = "transcribe" /\ variant \in WhisperVariants
  /\ ReqNoTimer
  /\ UNCHANGED <<normalizedUrl, videoId, langs, adapterUrl, attemptsLog, produced,
                 result, tmpDir, idx, loop>>
  /\ calls' = Append(calls, <<"whisper", "">>)
  /\ \E tr \in TranscriptionResults :
       IF whisperAccepts(tr) THEN Respond(200, tr, Null, "none", FALSE)
       ELSE IF tr = "error"
         THEN Respond(500, "Whisper API error", Null, "transcription", FALSE)
       ELSE Respond(500, "Whisper returned insufficient content", Null,
                    "transcription", FALSE)

Next ==
  \/ Validate
  \/ GetPipedStreams
  \/ PipedFetchAudio
  \/ PipedPipeline
  \/ PipedTranscribe
  \/ EnsureYtDlp
  \/ YtDlpExec
  \/ YtDlpTranscribe
  \/ GetInfoRobust
  \/ YtdlDownload
  \/ YtdlTranscribe
  \/ CaptionsValidate
  \/ TryCaptionMethod
  \/ ListTranscripts
  \/ TryLanguage
  \/ GetVideoDetails
  \/ WhisperValidate
  \/ WhisperDownload
  \/ WhisperTranscribe

Spec == Init /\ [][Next]_vars

(***************************************************************************)
(* Properties                                                              *)
(***************************************************************************)
CallKinds == { calls[i][1] : i \in 1..Len(calls) }
IsStrategyCall(c) == c[1] \in {"mirror", "getInfo", "caption"}
StrategyCalls == SelectSeq(calls, IsStrategyCall)

\* C1: in the Piped handlers, once the per-request temp directory has been
\* created it has been removed by the time the handler returns, on every path
\* (audio fetch not OK, fetch aborted or thrown, streaming failed, transcription
\* failed, success).
C1_PipedTmpDirRemovedOnReturn ==
  (variant \in PipedVariants /\ pc = "done") => tmpDir # "exists"

\* C2: in the yt-dlp handlers, the temp download directory of a request is
\* removed on every exit path after its creation (yt-dlp fails, no supported
\* audio file, reading the files throws, transcription fails, success).
C2_YtDlpTmpDirRemovedOnReturn ==
  (variant \in YtDlpVariants /\ pc = "done") => tmpDir # "exists"

\* C3: short-circuit.  In every ordered fallback loop (caption methods, Piped
\* mirrors, client profiles) the strategies are invoked in list order, and if
\* the strategy at position k succeeds then no strategy after k is invoked and
\* the result returned is the one strategy k produced.
StrategySucceeded(v, p) ==
  /\ p \notin MirrorErrors \cup {"error"}
  /\ (v = "piped_multi" => p # "json_null")

StrategyOrder(v, i) ==
  IF v \in PipedVariants THEN <<"mirror", PIPED_BASES(v)[i]>>
  ELSE IF v \in YtdlVariants THEN <<"getInfo", clients(v)[i]>>
  ELSE IF i <= Len(methods(v)) THEN <<"caption", methods(v)[i]>>
  ELSE <<"caption", "language.fetch">>

C3_ShortCircuit ==
  /\ \A k \in 1..Len(produced) :
       StrategySucceeded(variant, produced[k]) =>
         /\ Len(produced) = k
         /\ loop = "returned"
         /\ result = produced[k]
  /\ \A i \in 1..Len(StrategyCalls) : StrategyCalls[i] = StrategyOrder(variant, i)

C3_Witness ==
  /\ variant = "piped_multi_log" /\ pc = "done" /\ status = 200
  /\ Len(produced) = 2 /\ result = produced[2] /\ Len(StrategyCalls) = 2

\* C4: exhaustion.  If every strategy of a fallback chain fails, the failure
\* returned to the caller contains exactly one attempt record per strategy
\* attempted, in strategy order, and no successful result is returned.
C4_ExhaustionAggregatesAttempts ==
  (variant \in {"piped_multi_log", "captions_multi"} /\ loop = "exhausted" /\ pc = "done") =>
     /\ status >= 400
     /\ Len(body.attempts) = Len(produced)
     /\ \A i \in 1..Len(produced) :
          /\ body.attempts[i].ok = FALSE
          /\ body.attempts[i].error = produced[i]

C6_StatusMapping ==
  (variant \in GetVariants /\ hasKey /\ pc = "done") =>
     /\ failKind = "acquisition" => status = 502
     /\ status = 500 => failKind \in {"transcription", "service"}
     /\ status = 400 => failKind = "invalid_input"

\* C7: for a URL of none of the three recognized shapes (and for a missing
\* url) the GET /transcript handler responds 400 and performs no outbound call,
\* binary download, temp-directory creation or transcription call.
NoShape(s) ==
  /\ MatchStarts(RE_V, "&", s) = {}
  /\ MatchStarts(RE_BE, "?", s) = {}
  /\ MatchStarts(RE_SHORTS, "?", s) = {}

C7_InvalidUrlRejectedBeforeAnyCall ==
  (variant \in GetVariants /\ NoShape(url)) =>
     /\ calls = << >>
     /\ tmpDir = "none"
     /\ pc \in {"start", "done"}
     /\ pc = "done" => status = 400

C7_Witness ==
  /\ variant \in GetVariants /\ url = GARBAGE_URL /\ hasKey
  /\ pc = "done" /\ status = 400 /\ calls = << >>

\* C8: for any identifier, extractVideoId applied to the three supported URL
\* shapes carrying it (each optionally followed by further query parameters)
\* yields that identifier; https://youtu.be/dQw4w9WgXcQ?feature=share normalizes
\* to https://www.youtube.com/watch?v=dQw4w9WgXcQ and extracts dQw4w9WgXcQ.
C8_SameIdFromAllShapes ==
  /\ (upc \in {"extracted", "normalized"} /\ uwell) => uid = uidIn
  /\ (upc = "normalized" /\ u = ScenarioUrl) =>
        (unorm = WATCH_PREFIX \o ScenarioId /\ uid = ScenarioId)

C8_Witness ==
  /\ upc = "normalized" /\ u = ScenarioUrl
  /\ uid = ScenarioId /\ unorm = WATCH_PREFIX \o ScenarioId

\* C9: for each of the three shapes the extracted ID is the substring from the
\* shape marker to the next '&' or '?', whichever comes first, so the extracted
\* ID never contains '&' or '?'.
C9_IdEndsAtFirstDelimiter ==
  (upc \in {"extracted", "normalized"} /\ uidIn # Null) =>
     /\ uid = uidIn
     /\ "&" \notin Range(uid)
     /\ "?" \notin Range(uid)

\* C10: whenever a GET /transcript handler proceeds past URL validation, the URL
\* handed to every downstream adapter is exactly
\* "https://www.youtube.com/watch?v=" followed by the handler's videoId.
C10_AdapterUrlIsCanonical ==
  adapterUrl # Null => adapterUrl = WATCH_PREFIX \o videoId

\* C11: every video identifier a handler proceeds with is non-empty and exactly
\* 11 characters long; an input from which no such identifier can be extracted
\* yields no identifier and the request is rejected.  (Stated for the handlers
\* that rely on extractVideoId alone, without ytdl.validateURL.)
C11_ProceedsOnlyWith11CharId ==
  (variant \in PipedVariants \cup YtDlpVariants /\ hasKey /\ pc # "start") =>
     IF Len(videoId) = 11
       THEN TRUE
       ELSE pc = "done" /\ status = 400 /\ calls = << >>

(***************************************************************************)
(* Pure helpers: JS string primitives on sequences of characters.          *)
(***************************************************************************)
\* the bounds of the helpers' inputs
MaxSegs == 3
MaxK == 60

NL == "\n"

\* Number.prototype.toString() of a non-negative integer
RECURSIVE toString(_)
toString(n) ==
  LET d == <<"0", "1", "2", "3", "4", "5", "6", "7", "8", "9">>[(n % 10) + 1]
  IN  IF n < 10 THEN <<d>> ELSE toString(n \div 10) \o <<d>>

\* String.prototype.padStart(len, '0')
RECURSIVE padStart(_, _)
padStart(str, len) ==
  IF Len(str) >= len THEN str ELSE padStart(<<"0">> \o str, len)

\* Array.prototype.join(sep) of an array of strings
RECURSIVE join(_, _)
join(list, sep) ==
  IF list = << >> THEN << >>
  ELSE IF Len(list) = 1 THEN list[1]
  ELSE list[1] \o sep \o join(Tail(list), sep)

(***************************************************************************)
(* Transcript formatters (caption handlers).                               *)
(***************************************************************************)
\* faulty variant: the milliseconds are not padded
formatTimeMsNotPadded(milliseconds) ==
  LET totalSeconds == milliseconds \div 1000
      hours == totalSeconds \div 3600
      minutes == (totalSeconds % 3600) \div 60
      seconds == totalSeconds % 60
      ms == milliseconds % 1000
  IN  padStart(toString(hours), 2) \o <<":">> \o padStart(toString(minutes), 2)
        \o <<":">> \o padStart(toString(seconds), 2) \o <<",">> \o toString(ms)

formatTime(milliseconds) ==
  LET totalSeconds == milliseconds \div 1000
      hours == totalSeconds \div 3600
      minutes == (totalSeconds % 3600) \div 60
      seconds == totalSeconds % 60
      ms == milliseconds % 1000
  IN  padStart(toString(hours), 2) \o <<":">> \o padStart(toString(minutes), 2)
        \o <<":">> \o padStart(toString(seconds), 2) \o <<",">>
        \o padStart(toString(ms), 3)

\* faulty variant: the texts are concatenated without a separator
formatTranscriptAsTextNoSep(transcript) ==
  join([i \in 1..Len(transcript) |-> transcript[i].text], << >>)

formatTranscriptAsText(transcript) ==
  join([i \in 1..Len(transcript) |-> transcript[i].text], <<" ">>)

ARROW == <<" ", "-", "-", ">", " ">>

\* faulty variant: the end time is the start time
formatTranscriptAsSrtEndIsStart(transcript) ==
  join([index \in 1..Len(transcript) |->
          LET item == transcript[index]
              startTime == formatTime(item.offset)
              endTime == formatTime(item.offset)
          IN  toString(index) \o <<NL>> \o startTime \o ARROW \o endTime \o <<NL>>
                \o item.text \o <<NL>>],
       <<NL>>)

\* `index + 1` of the 0-based JS index is the 1-based position here
formatTranscriptAsSrt(transcript) ==
  join([index \in 1..Len(transcript) |->
          LET item == transcript[index]
              startTime == formatTime(item.offset)
              endTime == formatTime(item.offset + item.duration)
          IN  toString(index) \o <<NL>> \o startTime \o ARROW \o endTime \o <<NL>>
                \o item.text \o <<NL>>],
       <<NL>>)

\* inputs: millisecond values around every unit boundary, and segment lists
TimeInputs ==
  { 0, 1, 9, 10, 99, 100, 999, 1000, 59999, 60000, 65000, 67500, 3599999, 3600000,
    35999999, 36000000, 359999999, 360000000 } \cup { 61007 * k : k \in 0..MaxK }

Segments ==
  { [text |-> <<"h", "i">>, offset |-> 65000, duration |-> 2500],
    [text |-> <<"a", " ", "b">>, offset |-> 0, duration |-> 999],
    [text |-> << >>, offset |-> 3599500, duration |-> 1500] }

TranscriptInputs == UNION { [1..n -> Segments] : n \in 0..MaxSegs }

FmtInit ==
  \/ fn = "formatTime" /\ farg \in TimeInputs
  \/ fn = "formatTranscriptAsText" /\ farg \in TranscriptInputs
  \/ fn = "formatTranscriptAsSrt" /\ farg \in TranscriptInputs

ApplyFormatTime ==
  /\ fpc = "input" /\ fn = "formatTime"
  /\ fout' = formatTime(farg)
  /\ fpc' = "output"
  /\ UNCHANGED <<fn, farg>> /\ UNCHANGED uvars /\ UNCHANGED hvars
  /\ UNCHANGED cvars

ApplyFormatTranscriptAsText ==
  /\ fpc = "input" /\ fn = "formatTranscriptAsText"
  /\ fout' = formatTranscriptAsText(farg)
  /\ fpc' = "output"
  /\ UNCHANGED <<fn, farg>> /\ UNCHANGED uvars /\ UNCHANGED hvars
  /\ UNCHANGED cvars

ApplyFormatTranscriptAsSrt ==
  /\ fpc = "input" /\ fn = "formatTranscriptAsSrt"
  /\ fout' = formatTranscriptAsSrt(farg)
  /\ fpc' = "output"
  /\ UNCHANGED <<fn, farg>> /\ UNCHANGED uvars /\ UNCHANGED hvars
  /\ UNCHANGED cvars

(***************************************************************************)
(* guessExt of the ytdl handlers, and the inputs of the extension helpers. *)
(***************************************************************************)

\* faulty variant: the MIME type is looked at before the container
guessExtMimeFirst(fmt) ==
  LET c == toLowerCase(fmt.container)
      mt == toLowerCase(fmt.mimeType)
  IN  IF includes(mt, Str("webm")) \/ includes(mt, Str("opus")) THEN Str("webm")
      ELSE IF includes(mt, Str("mp4")) \/ includes(mt, Str("m4a")) \/ includes(mt, Str("aac")) THEN Str("m4a")
      ELSE IF includes(mt, Str("mpeg")) THEN Str("mp3")
      ELSE IF includes(mt, Str("ogg")) THEN Str("ogg")
      ELSE IF c # << >> THEN c
      ELSE Str("webm")

\* part_004 and part_000
guessExt(fmt) ==
  LET c == toLowerCase(fmt.container)
      mt == toLowerCase(fmt.mimeType)
  IN  IF c # << >> THEN c
      ELSE IF includes(mt, Str("webm")) \/ includes(mt, Str("opus")) THEN Str("webm")
      ELSE IF includes(mt, Str("mp4")) \/ includes(mt, Str("m4a")) \/ includes(mt, Str("aac")) THEN Str("m4a")
      ELSE IF includes(mt, Str("mpeg")) THEN Str("mp3")
      ELSE IF includes(mt, Str("ogg")) THEN Str("ogg")
      ELSE Str("webm")

\* part_006: the same decisions by case-insensitive regular expressions
guessExt_V2(fmt) ==
  LET byContainer == toLowerCase(fmt.container)
      mt == toLowerCase(fmt.mimeType)
  IN  IF byContainer # << >> THEN byContainer
      ELSE IF includes(mt, Str("audio/webm")) \/ includes(mt, Str("opus")) THEN Str("webm")
      ELSE IF includes(mt, Str("audio/mp4")) \/ includes(mt, Str("m4a")) \/ includes(mt, Str("aac"))
             THEN Str("m4a")
      ELSE IF includes(mt, Str("audio/mpeg")) THEN Str("mp3")
      ELSE IF includes(mt, Str("audio/ogg")) THEN Str("ogg")
      ELSE Str("webm")

\* formats as chooseFormat(..., { filter: "audioonly" }) returns them
FmtContainers == { << >>, Str("mp4"), Str("WEBM"), Str("m4a") }
FmtMimeTypes ==
  { << >>, Str("audio/mp4"), Str("audio/webm; codecs=opus"), Str("audio/mpeg"), Str("audio/ogg"), Str("audio/aac"),
    Str("audio/ogg; codecs=opus"), Str("audio/x-m4a"), Str("audio/flac") }
FmtInputs == [container : FmtContainers, mimeType : FmtMimeTypes]

\* bitrate lists: every list of 1..MaxStreams entries over these bitrates, the
\* entry at position i carrying the url "u<i>"
MaxStreams == 3
Bitrates == { StrBr(Str("64 kbps")), NumBr(128), StrBr(Str("96kbps")), NoBr, StrBr(Str("kbps")) }
PosUrl(i) == <<"u1", "u2", "u3", "u4">>[i]
BitrateLists ==
  { [i \in 1..n |-> Stream(PosUrl(i), f[i], Str("audio/webm"), << >>, << >>)] :
      n \in 1..MaxStreams, f \in [1..MaxStreams -> Bitrates] }
\* single streams over every combination of container, MIME type and codec
PickContainers == { << >>, Str("mp4"), Str("webm"), Str("mp3") }
PickMimeTypes == { << >>, Str("audio/mp4"), Str("audio/webm"), Str("audio/mp3") }
PickCodecs == { << >>, Str("opus"), Str("aac") }
ExtStreams ==
  { Stream("u1", NumBr(128), m, c, k) :
      m \in PickMimeTypes, c \in PickCodecs, k \in PickContainers }
PickInputs ==
  { Json(Arr(l), Absent) : l \in BitrateLists }
    \cup { Json(Arr(<<x>>), Absent) : x \in ExtStreams }
    \cup { Json(Absent, Arr(<<x>>)) : x \in ExtStreams }
    \cup { Json(Absent, Absent), Json(Arr(<< >>), Absent), Json(NotArray, Absent),
           Json(Arr(<< >>), Arr(<< StreamA >>)), Json(Absent, NotArray) }

ExtInit ==
  \/ fn = "pickAudioAndExt" /\ farg \in PickInputs
  \/ fn \in {"guessExt", "guessExt_V2"} /\ farg \in FmtInputs

ApplyPickAudioAndExt ==
  /\ fpc = "input" /\ fn = "pickAudioAndExt"
  /\ fout' = pickAudioAndExt(farg)
  /\ fpc' = "output"
  /\ UNCHANGED <<fn, farg>> /\ UNCHANGED uvars /\ UNCHANGED hvars
  /\ UNCHANGED cvars

ApplyGuessExt ==
  /\ fpc = "input" /\ fn \in {"guessExt", "guessExt_V2"}
  /\ fout' = IF fn = "guessExt" THEN guessExt(farg) ELSE guessExt_V2(farg)
  /\ fpc' = "output"
  /\ UNCHANGED <<fn, farg>> /\ UNCHANGED uvars /\ UNCHANGED hvars
  /\ UNCHANGED cvars

(***************************************************************************)
(* fetchCaptionsDirectly: the watch page, the player response found in it, *)
(* the caption track chosen and the track download.                        *)
(***************************************************************************)
MaxTracks == 3

\* faulty variant: the last matching track wins
bestCaptionLastMatch(captions, lang) ==
  LET hits == { i \in 1..Len(captions) : captions[i].languageCode = lang }
  IN  IF hits = {} THEN 1 ELSE CHOOSE i \in hits : \A j \in hits : j <= i

\* index of bestCaption: captions[0] unless the loop finds a languageCode === lang
bestCaption(captions, lang) ==
  LET hits == { i \in 1..Len(captions) : captions[i].languageCode = lang }
  IN  IF hits = {} THEN 1 ELSE SetMin(hits)

\* page: [ok, blob, captions]; cap: [ok, parsed]; the result records what was
\* fetched, the error thrown ("" when none) and the transcript returned
fetchCaptionsDirectly(page, lang, cap) ==
  LET videoUrl == "watch"
      thrown(msg, fetched) == [error |-> msg, fetched |-> fetched, transcript |-> ""]
  IN  IF ~page.ok THEN thrown("Failed to fetch video page", <<videoUrl>>)
      ELSE IF page.blob = "absent"
        THEN thrown("Could not find ytInitialPlayerResponse", <<videoUrl>>)
      ELSE IF page.blob = "malformed" THEN thrown("SyntaxError", <<videoUrl>>)
      ELSE IF page.captions.kind = "absent" \/ page.captions.items = << >>
        THEN thrown("No captions found in player response", <<videoUrl>>)
      ELSE LET best == page.captions.items[bestCaption(page.captions.items, lang)]
               fetched == <<videoUrl, best.baseUrl>>
           IN  IF ~cap.ok THEN thrown("Failed to fetch captions", fetched)
               ELSE IF cap.parsed = "no_match"
                 THEN thrown("No caption text found in XML", fetched)
               ELSE IF cap.parsed = "t_empty"
                 THEN thrown("Failed to parse caption data", fetched)
               ELSE [error |-> "", fetched |-> fetched, transcript |-> cap.parsed]

Langs == {"en", "de"}
TrackUrl(i) == <<"cap1", "cap2", "cap3", "cap4">>[i]
TrackLists ==
  { [i \in 1..n |-> [languageCode |-> f[i], baseUrl |-> TrackUrl(i)]] :
      n \in 0..MaxTracks, f \in [1..MaxTracks -> {"en", "de", "fr"}] }
Pages ==
  { [ok |-> TRUE, blob |-> "present", captions |-> Arr(t)] : t \in TrackLists }
    \cup { [ok |-> o, blob |-> b, captions |-> Absent] :
             o \in BOOLEAN, b \in {"absent", "malformed", "present"} }
CaptionResponses ==
  { [ok |-> TRUE, parsed |-> x] : x \in {"t_some", "t_empty", "no_match"} }
    \cup { [ok |-> FALSE, parsed |-> "no_match"] }

CapInit ==
  /\ fn = "fetchCaptionsDirectly"
  /\ farg \in [page : Pages, lang : Langs, cap : CaptionResponses]

ApplyFetchCaptionsDirectly ==
  /\ fpc = "input" /\ fn = "fetchCaptionsDirectly"
  /\ fout' = fetchCaptionsDirectly(farg.page, farg.lang, farg.cap)
  /\ fpc' = "output"
  /\ UNCHANGED <<fn, farg>> /\ UNCHANGED uvars /\ UNCHANGED hvars
  /\ UNCHANGED cvars

(***************************************************************************)
(* parseCaptionXml: the entity decoding applied to the text of a <text>    *)
(* element.                                                                *)
(***************************************************************************)
MaxTextLen == 4

\* String.prototype.replace(/pat/g, rep): left to right, matches do not overlap
RECURSIVE replaceAll(_, _, _)
replaceAll(s, pat, rep) ==
  IF Len(s) < Len(pat) THEN s
  ELSE IF OccursAt(pat, s, 1)
    THEN rep \o replaceAll(SubSeq(s, Len(pat) + 1, Len(s)), pat, rep)
  ELSE <<s[1]>> \o replaceAll(Tail(s), pat, rep)

\* textMatch[1].replace(/&amp;/g, '&').replace(/&lt;/g, '<')...  in this order
unescapeText(text) ==
  LET t1 == replaceAll(text, Str("&amp;"), <<"&">>)
      t2 == replaceAll(t1, Str("&lt;"), <<"<">>)
      t3 == replaceAll(t2, Str("&gt;"), <<">">>)
      t4 == replaceAll(t3, Str("&#39;"), <<"'">>)
  IN  replaceAll(t4, Str("&quot;"), <<"\"">>)

\* the text of a caption as the XML document carries it: each of the five
\* special characters written as its entity
escapeChar(c) ==
  CASE c = "&" -> Str("&amp;") [] c = "<" -> Str("&lt;") [] c = ">" -> Str("&gt;")
    [] c = "'" -> Str("&#39;") [] c = "\"" -> Str("&quot;") [] OTHER -> <<c>>
RECURSIVE escapeText(_)
escapeText(s) == IF s = << >> THEN << >> ELSE escapeChar(s[1]) \o escapeText(Tail(s))

RawTexts ==
  Words({"&", "<", "l", "t", ";"}, MaxTextLen)
    \cup { << >>, <<"a", "<", "b", ">", "&", "'", "\"">>, <<">">>, <<"'">>, <<"\"">> }

XmlInit ==
  /\ fn = "parseCaptionXml"
  /\ \E raw \in RawTexts : farg = [raw |-> raw, xml |-> escapeText(raw)]

ApplyParseCaptionXml ==
  /\ fpc = "input" /\ fn = "parseCaptionXml"
  /\ fout' = unescapeText(farg.xml)
  /\ fpc' = "output"
  /\ UNCHANGED <<fn, farg>> /\ UNCHANGED uvars /\ UNCHANGED hvars
  /\ UNCHANGED cvars

(***************************************************************************)
(* The 200 response of the GET /transcript handlers: headers and, with     *)
(* wrap=json, the format field of the body.  A file name is the sequence   *)
(* of the parts of its template.                                           *)
(***************************************************************************)
\* const responseFormat = format === "srt" ? "srt" : "text"
responseFormat(format) == IF format = "srt" THEN "srt" ELSE "text"

\* responseFormat === "srt" ? "srt" : "txt"
extOf(rf) == IF rf = "srt" THEN "srt" ELSE "txt"

\* const outExt = format === "srt" ? "srt" : "txt"
outExt(format) == IF format = "srt" THEN "srt" ELSE "txt"

NoHeader == << >>

successResponse(v, id, format, wrap) ==
  CASE v = "ytdl_express" ->
         \* sendGzippedText(res, filename, text)
         [source |-> "openai",
          filename |-> IF wrap = "json"
                         THEN <<id, ".", responseFormat(format)>>
                         ELSE <<id, ".", extOf(responseFormat(format))>>,
          format |-> IF wrap = "json" THEN responseFormat(format) ELSE "none"]
    [] v = "ytdlp_express" ->
         \* sendOutput(data): res.json returns before Content-Disposition is set
         [source |-> "openai",
          filename |-> IF wrap = "json" THEN NoHeader
                       ELSE <<id, ".", outExt(format)>>,
          format |-> IF wrap = "json" THEN outExt(format) ELSE "none"]
    [] OTHER ->
         [source |-> "openai",
          filename |-> <<id, ".", extOf(responseFormat(format))>>,
          format |-> IF wrap = "json" THEN extOf(responseFormat(format)) ELSE "none"]

Formats == {"txt", "srt", "vtt"}
Wraps == {"json", "none"}

RespInit ==
  /\ fn = "successResponse"
  /\ farg \in [v : GetVariants, id : {ScenarioId}, format : Formats, wrap : Wraps]

ApplySuccessResponse ==
  /\ fpc = "input" /\ fn = "successResponse"
  /\ fout' = successResponse(farg.v, farg.id, farg.format, farg.wrap)
  /\ fpc' = "output"
  /\ UNCHANGED <<fn, farg>> /\ UNCHANGED uvars /\ UNCHANGED hvars
  /\ UNCHANGED cvars

(***************************************************************************)
(* The yt-dlp handlers after the download: the listing of the temp         *)
(* directory, the filter on extension and file type, the choice of the     *)
(* largest file.  An entry is [ext, isFile, size]; the result names the    *)
(* chosen entry by its position in the listing.                            *)
(***************************************************************************)
MaxFiles == 3

\* new Set(["flac","m4a","mp3","mp4","mpeg","mpga","oga","ogg","wav","webm"])
allowed ==
  { <<"f","l","a","c">>, <<"m","4","a">>, <<"m","p","3">>, <<"m","p","4">>,
    <<"m","p","e","g">>, <<"m","p","g","a">>, <<"o","g","a">>, <<"o","g","g">>,
    <<"w","a","v">>, <<"w","e","b","m">> }

\* files.filter(f => allowed.has(path.extname(f).slice(1).toLowerCase())
\*                   && fs.statSync(f).isFile()), as positions of the listing
filterAllowed(listing) ==
  SelectSeq([i \in 1..Len(listing) |-> i],
            LAMBDA i : toLowerCase(listing[i].ext) \in allowed /\ listing[i].isFile)

\* faulty variant: ascending sort, the smallest file first
smallestFirst(listing, files) ==
  LET k == CHOOSE k \in 1..Len(files) :
             /\ \A j \in 1..Len(files) : listing[files[k]].size <= listing[files[j]].size
             /\ \A j \in 1..(k - 1) : listing[files[j]].size # listing[files[k]].size
  IN  files[k]

\* .map(f => ({f, s: statSync(f).size})).sort((a, b) => b.s - a.s)[0].f: the
\* sort is stable, so the first of the largest files in listing order
largestFirst(listing, files) ==
  LET k == CHOOSE k \in 1..Len(files) :
             /\ \A j \in 1..Len(files) : listing[files[k]].size >= listing[files[j]].size
             /\ \A j \in 1..(k - 1) : listing[files[j]].size # listing[files[k]].size
  IN  files[k]

pickAudioFile(listing) ==
  LET files == filterAllowed(listing)
  IN  IF Len(files) = 0
        THEN [status |-> 500, error |-> "Download produced no supported audio file.",
              filePath |-> 0, transcribed |-> FALSE]
        ELSE [status |-> 0, error |-> "",
              filePath |-> largestFirst(listing, files), transcribed |-> TRUE]

FileExts == { <<"m","4","a">>, <<"W","E","B","M">>, <<"p","a","r","t">> }
FileSizes == {1, 2}
DirEntries == [ext : FileExts, isFile : BOOLEAN, size : FileSizes]

RECURSIVE Listings(_)
Listings(n) ==
  IF n = 0 THEN { << >> }
  ELSE LET shorter == Listings(n - 1)
       IN  shorter \cup { Append(l, e) : l \in { x \in shorter : Len(x) = n - 1 },
                                          e \in DirEntries }

FilesInit == fn = "pickAudioFile" /\ farg \in Listings(MaxFiles)

ApplyPickAudioFile ==
  /\ fpc = "input" /\ fn = "pickAudioFile"
  /\ fout' = pickAudioFile(farg)
  /\ fpc' = "output"
  /\ UNCHANGED <<fn, farg>> /\ UNCHANGED uvars /\ UNCHANGED hvars
  /\ UNCHANGED cvars

(***************************************************************************)
(* The per-call timeouts read from the environment when the module loads.  *)
(* An environment value is a character sequence, Null when unset or empty; *)
(* a parsed number is [nan, n].                                            *)
(***************************************************************************)
MaxEnvLen == 2

RECURSIVE trimStart(_)
trimStart(s) == IF s # << >> /\ s[1] = " " THEN trimStart(Tail(s)) ELSE s

\* parseInt(s, 10): leading blanks, an optional sign, then the longest run of
\* digits; NaN when there is no digit
parseInt10(s) ==
  LET t == trimStart(s)
      signed == t # << >> /\ t[1] \in {"-", "+"}
      r == IF signed THEN Tail(t) ELSE t
  IN  IF r = << >> \/ DigitVal(r[1]) < 0
        THEN [nan |-> TRUE, n |-> 0]
        ELSE [nan |-> FALSE,
              n |-> IF signed /\ t[1] = "-" THEN 0 - ParseNat(firstDigits(r))
                    ELSE ParseNat(firstDigits(r))]

\* x || d on a number: NaN and 0 are falsy
orNumber(x, d) == IF x.nan \/ x.n = 0 THEN d ELSE x.n

\* parseInt(process.env.PIPED_TIMEOUT_MS || "9000", 10) || 9000
DEFAULT_TIMEOUT_STREAMS_MS(env) ==
  orNumber(parseInt10(IF env = Null THEN <<"9", "0", "0", "0">> ELSE env), 9000)

\* parseInt(process.env.AUDIO_TIMEOUT_MS || "20000", 10) || 20000
DEFAULT_TIMEOUT_AUDIO_MS(env) ==
  orNumber(parseInt10(IF env = Null THEN <<"2", "0", "0", "0", "0">> ELSE env), 20000)

EnvChars == {"0", "7", "-", "x", " "}

RECURSIVE EnvValues(_)
EnvValues(n) ==
  IF n = 0 THEN { << >> }
  ELSE LET shorter == EnvValues(n - 1)
       IN  shorter \cup { Append(v, c) : v \in { x \in shorter : Len(x) = n - 1 },
                                          c \in EnvChars }

EnvInit ==
  /\ fn \in {"DEFAULT_TIMEOUT_STREAMS_MS", "DEFAULT_TIMEOUT_AUDIO_MS"}
  /\ farg \in EnvValues(MaxEnvLen)

ApplyTimeoutFromEnv ==
  /\ fpc = "input" /\ fn \in {"DEFAULT_TIMEOUT_STREAMS_MS", "DEFAULT_TIMEOUT_AUDIO_MS"}
  /\ fout' = IF fn = "DEFAULT_TIMEOUT_STREAMS_MS" THEN DEFAULT_TIMEOUT_STREAMS_MS(farg)
             ELSE DEFAULT_TIMEOUT_AUDIO_MS(farg)
  /\ fpc' = "output"
  /\ UNCHANGED <<fn, farg>> /\ UNCHANGED uvars /\ UNCHANGED hvars
  /\ UNCHANGED cvars

FnInit ==
  /\ UrlIdle /\ HandlerIdle /\ ConcIdle
  /\ fpc = "input" /\ fout = Null
  /\ (FmtInit \/ ExtInit \/ CapInit \/ XmlInit \/ RespInit \/ FilesInit \/ EnvInit)

FnNext ==
  \/ ApplyFormatTime
  \/ ApplyFormatTranscriptAsText
  \/ ApplyFormatTranscriptAsSrt
  \/ ApplyPickAudioAndExt
  \/ ApplyGuessExt
  \/ ApplyFetchCaptionsDirectly
  \/ ApplyParseCaptionXml
  \/ ApplySuccessResponse
  \/ ApplyPickAudioFile
  \/ ApplyTimeoutFromEnv

SpecFn == FnInit /\ [][FnNext]_vars

(***************************************************************************)
(* Properties of the pure helpers.                                         *)
(***************************************************************************)
Applied(f) == fn = f /\ fpc = "output"

\* total length of the first i texts
RECURSIVE SumLen(_, _)
SumLen(t, i) == IF i = 0 THEN 0 ELSE SumLen(t, i - 1) + Len(t[i].text)

\* C12: formatTranscriptAsText returns the segment texts joined by single
\* spaces in input order; for the empty sequence it returns the empty string.
C12_TextIsSpaceJoined ==
  Applied("formatTranscriptAsText") =>
    LET n == Len(farg)
    IN  IF n = 0 THEN fout = << >>
        ELSE /\ Len(fout) = SumLen(farg, n) + n - 1
             /\ \A i \in 1..n :
                  SubSeq(fout, SumLen(farg, i - 1) + i, SumLen(farg, i) + i - 1)
                    = farg[i].text
             /\ \A i \in 1..(n - 1) : fout[SumLen(farg, i) + i] = " "

C12_Witness ==
  /\ Applied("formatTranscriptAsText") /\ Len(farg) = 3
  /\ farg[1].text = <<"a", " ", "b">> /\ farg[2].text = << >>
  /\ fout = <<"a", " ", "b", " ", " ", "h", "i">>

\* the fields of HH:MM:SS,mmm read from the right; HH is what remains
TimeFields(s) ==
  LET n == Len(s)
  IN  [ok |-> n >= 12 /\ s[n - 3] = "," /\ s[n - 6] = ":" /\ s[n - 9] = ":",
       hh |-> SubSeq(s, 1, n - 10), mm |-> SubSeq(s, n - 8, n - 7),
       ss |-> SubSeq(s, n - 5, n - 4), mmm |-> SubSeq(s, n - 2, n)]
WellFormedTime(s) ==
  LET f == TimeFields(s)
  IN  /\ f.ok
      /\ ParseNat(f.hh) >= 0 /\ (Len(f.hh) > 2 => f.hh[1] # "0")
      /\ ParseNat(f.mm) \in 0..59 /\ ParseNat(f.ss) \in 0..59
      /\ ParseNat(f.mmm) \in 0..999
TimeValue(s) ==
  LET f == TimeFields(s)
  IN  ParseNat(f.hh) * 3600000 + ParseNat(f.mm) * 60000 + ParseNat(f.ss) * 1000
        + ParseNat(f.mmm)

\* the lines of a text: its pieces between line feeds
RECURSIVE SplitLines(_)
SplitLines(s) ==
  IF \A i \in 1..Len(s) : s[i] # NL THEN <<s>>
  ELSE LET k == CHOOSE i \in 1..Len(s) : s[i] = NL /\ \A j \in 1..(i - 1) : s[j] # NL
       IN  <<SubSeq(s, 1, k - 1)>> \o SplitLines(SubSeq(s, k + 1, Len(s)))

\* C13: formatTranscriptAsSrt emits one block per segment, in input order,
\* separated by exactly one blank line; the block of the segment at 0-based
\* position i has the lines i+1, "<start> --> <end>" with end = start +
\* duration, and the segment text.
C13_SrtBlocks ==
  Applied("formatTranscriptAsSrt") =>
    LET n == Len(farg)
        lines == SplitLines(fout)
    IN  IF n = 0 THEN fout = << >>
        ELSE /\ Len(lines) = 4 * n
             /\ \A i \in 1..n :
                  LET l1 == lines[4 * i - 3]
                      l2 == lines[4 * i - 2]
                      t1 == SubSeq(l2, 1, Len(l2) - 17)
                      t2 == SubSeq(l2, Len(l2) - 11, Len(l2))
                  IN  /\ ParseNat(l1) = i /\ l1[1] # "0"
                      /\ Len(l2) >= 29
                      /\ SubSeq(l2, Len(l2) - 16, Len(l2) - 12) = ARROW
                      /\ WellFormedTime(t1) /\ TimeValue(t1) = farg[i].offset
                      /\ WellFormedTime(t2)
                      /\ TimeValue(t2) = farg[i].offset + farg[i].duration
                      /\ lines[4 * i - 1] = farg[i].text
                      /\ lines[4 * i] = << >>

C13_Witness ==
  /\ Applied("formatTranscriptAsSrt") /\ Len(farg) = 2
  /\ farg[1].offset = 65000 /\ farg[1].duration = 2500 /\ farg[2].offset = 0
  /\ SplitLines(fout)[2] =
       <<"0", "0", ":", "0", "1", ":", "0", "5", ",", "0", "0", "0", " ", "-", "-", ">", " ",
         "0", "0", ":", "0", "1", ":", "0", "7", ",", "5", "0", "0">>
  /\ SplitLines(fout)[4] = << >> /\ SplitLines(fout)[5] = <<"2">>

\* C14: for every non-negative integer ms, formatTime(ms) is HH:MM:SS,mmm with
\* hours, minutes, seconds padded to at least 2 digits and milliseconds to
\* exactly 3, minutes and seconds in 0..59, and HH*3600000 + MM*60000 +
\* SS*1000 + mmm = ms; 65000 renders 00:01:05,000 and 67500 renders 00:01:07,500.
C14_FormatTime ==
  Applied("formatTime") =>
    /\ WellFormedTime(fout)
    /\ TimeValue(fout) = farg
    /\ farg = 65000 =>
         fout = <<"0", "0", ":", "0", "1", ":", "0", "5", ",", "0", "0", "0">>
    /\ farg = 67500 =>
         fout = <<"0", "0", ":", "0", "1", ":", "0", "7", ",", "5", "0", "0">>

C14_Witness ==
  /\ Applied("formatTime") /\ farg = 360000000
  /\ fout = <<"1", "0", "0", ":", "0", "0", ":", "0", "0", ",", "0", "0", "0">>

\* the bitrate each input value stands for
ExpectedBitrate(b) ==
  CASE b = StrBr(Str("64 kbps")) -> 64
    [] b = NumBr(128) -> 128
    [] b = StrBr(Str("96kbps")) -> 96
    [] OTHER -> 0

PickedList == audioStreams(farg).items
IsNullPick(r) == r.url = "" /\ r.ext = ""

\* C15: pickAudioAndExt selects from a non-empty list an entry of maximal
\* parsed bitrate (number as is, string by its first run of digits, missing or
\* unparseable as 0), the earliest among equals; the list "64 kbps", 128,
\* "96kbps" gives the 128 entry; an empty or non-array list gives null.
C15_HighestBitrateEarliest ==
  Applied("pickAudioAndExt") =>
    LET list == audioStreams(farg)
    IN  IF list.kind # "array" \/ list.items = << >>
          THEN IsNullPick(fout)
          ELSE \E k \in 1..Len(list.items) :
                 /\ fout.url = list.items[k].url
                 /\ fout.ext # ""
                 /\ \A j \in 1..Len(list.items) :
                      ExpectedBitrate(list.items[j].bitrate)
                        <= ExpectedBitrate(list.items[k].bitrate)
                 /\ \A j \in 1..(k - 1) :
                      ExpectedBitrate(list.items[j].bitrate)
                        < ExpectedBitrate(list.items[k].bitrate)

C15_Witness ==
  /\ Applied("pickAudioAndExt")
  /\ Len(PickedList) = 3
  /\ PickedList[1].bitrate = StrBr(Str("64 kbps"))
  /\ PickedList[2].bitrate = NumBr(128)
  /\ PickedList[3].bitrate = StrBr(Str("96kbps"))
  /\ fout.url = "u2"

\* C16: the extension pickAudioAndExt infers follows explicit container > MIME
\* inference > default webm: when the chosen stream declares a non-empty
\* container, the extension is the same whatever the MIME type and codec are.
C16_ContainerDecidesExt ==
  (Applied("pickAudioAndExt") /\ Len(PickedList) = 1) =>
    LET x == PickedList[1]
    IN  x.container # << >> =>
          \A m \in PickMimeTypes, c \in PickCodecs :
             pickAudioAndExt(Json(Arr(<<[x EXCEPT !.mimeType = m, !.codec = c]>>), Absent)).ext
               = fout.ext

\* C17: guessExt follows explicit container > MIME inference > default webm: a
\* non-empty container is returned lower-cased whatever the mimeType; otherwise
\* webm/opus -> webm, mp4/m4a/aac -> m4a, mpeg -> mp3, ogg -> ogg; otherwise
\* webm; the result is never empty.
C17_GuessExtPrecedence ==
  (Applied("guessExt") \/ Applied("guessExt_V2")) =>
    LET c == farg.container
        mt == farg.mimeType
        has(w) == includes(mt, w)
    IN  /\ fout # << >>
        /\ c # << >> => fout = toLowerCase(c)
        /\ c = << >> =>
             fout = IF has(Str("webm")) \/ has(Str("opus")) THEN Str("webm")
                    ELSE IF has(Str("mp4")) \/ has(Str("m4a")) \/ has(Str("aac")) THEN Str("m4a")
                    ELSE IF has(Str("mpeg")) THEN Str("mp3")
                    ELSE IF has(Str("ogg")) THEN Str("ogg")
                    ELSE Str("webm")

C17_Witness ==
  /\ Applied("guessExt") /\ farg.container = Str("WEBM") /\ farg.mimeType = Str("audio/mp4")
  /\ fout = Str("webm")

\* C18: fetchCaptionsDirectly selects the first caption track in list order
\* whose languageCode equals the language hint and the first track of the list
\* when none matches; it throws, fetching no track, when the player-response
\* blob is absent or the caption track list is missing or empty.
C18_TrackSelection ==
  (Applied("fetchCaptionsDirectly") /\ farg.page.ok) =>
    LET tracks == farg.page.captions.items
        matches(i) == tracks[i].languageCode = farg.lang
    IN  IF farg.page.blob # "present" \/ farg.page.captions.kind = "absent"
             \/ tracks = << >>
          THEN fout.error # "" /\ fout.fetched = <<"watch">> /\ fout.transcript = ""
          ELSE /\ Len(fout.fetched) = 2
               /\ \E k \in 1..Len(tracks) :
                    /\ fout.fetched[2] = tracks[k].baseUrl
                    /\ \/ matches(k) /\ \A j \in 1..(k - 1) : ~matches(j)
                       \/ k = 1 /\ \A j \in 1..Len(tracks) : ~matches(j)

C18_Witness ==
  /\ Applied("fetchCaptionsDirectly") /\ farg.page.ok /\ farg.page.blob = "present"
  /\ Len(farg.page.captions.items) = 3 /\ farg.lang = "de"
  /\ farg.page.captions.items[1].languageCode = "fr"
  /\ farg.page.captions.items[2].languageCode = "de"
  /\ farg.page.captions.items[3].languageCode = "de"
  /\ fout.fetched = <<"watch", "cap2">> /\ fout.error = ""

\* C19: the entity unescaping in parseCaptionXml is the inverse of escaping
\* with the five entities: unescaping the escaped form of a text yields the
\* text again, each entity occurrence being decoded exactly once.
C19_UnescapeInvertsEscape ==
  Applied("parseCaptionXml") => fout = farg.raw

\* C20: a transcription result shorter than the sanity threshold (an empty one
\* included) is never returned to the caller as a success: every handler that
\* calls the speech-to-text service rejects such a result as an error.
C20_ShortResultRejected ==
  (variant \in GetVariants \cup WhisperVariants /\ pc = "done"
     /\ "whisper" \in CallKinds /\ status = 200) =>
    TextLength(body.msg) >= MIN_TRANSCRIPT_LENGTH

\* C21: when the transcription credential is missing, the request fails without
\* any audio acquisition (no page fetch, mirror query, download or binary
\* invocation) and without any transcription call, and no step is retried.
C21_MissingKeyFailsBeforeAnyCall ==
  (variant \in GetVariants \cup WhisperVariants /\ ~hasKey) =>
     /\ calls = << >>
     /\ tmpDir = "none"
     /\ pc = "done" => status >= 400

\* C22: every outbound network call made while serving a request (caption page
\* and track fetch, each mirror query, the audio fetch, the transcription call)
\* carries an explicit deadline, so that no call can remain pending forever.
C22_EveryCallHasDeadline ==
  \A i \in 1..Len(calls) : explicitDeadline(variant, calls[i][1])

\* C23: in getPipedStreams a mirror query that exceeds its deadline counts as
\* the failure of that mirror only: the next mirror in the list is queried, and
\* the request fails at this stage only after the last mirror has failed.
C23_TimeoutFailsOneMirrorOnly ==
  variant \in {"piped_multi_log", "piped_multi"} =>
    LET bases == PIPED_BASES(variant)
    IN  /\ \A k \in 1..Len(produced) :
             /\ calls[k] = <<"mirror", bases[k]>>
             /\ (produced[k] = "timeout" /\ k < Len(bases)) =>
                  \/ Len(produced) > k
                  \/ pc = "streams" /\ idx = k + 1 /\ status = 0
        /\ loop = "exhausted" =>
             /\ Len(produced) = Len(bases)
             /\ \A k \in 1..Len(produced) : ~StrategySucceeded(variant, produced[k])

C23_Witness ==
  /\ variant = "piped_multi_log" /\ pc = "done" /\ status = 200
  /\ Len(produced) = 3 /\ produced[1] = "timeout" /\ produced[2] = "timeout"
  /\ produced[3] = "json_a"

\* the number of strategies the request's fallback chain has
NumStrategies ==
  IF variant \in PipedVariants THEN Len(PIPED_BASES(variant))
  ELSE IF variant \in YtdlVariants THEN Len(clients(variant))
  ELSE IF variant \in CaptionVariants THEN Len(methods(variant)) + langs
  ELSE 0

\* C24: within a single request every strategy (each caption method, each
\* mirror, each client profile, the audio download, the transcription call) is
\* invoked at most once: one pass through the ordered list, no retry.
C24_NoStrategyRetried ==
  /\ Len(StrategyCalls) <= NumStrategies
  /\ \A i, j \in 1..Len(calls) :
       (i < j /\ calls[i] = calls[j]) => calls[i] = <<"caption", "language.fetch">>
  /\ Cardinality({ i \in 1..Len(calls) : calls[i] = <<"caption", "language.fetch">> })
       <= langs

C24_Witness ==
  /\ variant = "piped_multi" /\ pc = "done" /\ loop = "exhausted"
  /\ Len(calls) = Len(PIPED_BASES(variant))

(***************************************************************************)
(* Concurrent requests.  One process serves NumRequests requests with the  *)
(* same handler; a request runs without interruption from one await to the *)
(* next, and the awaited operations of different requests settle in any    *)
(* order.  Only the steps that touch state outside the request are kept:   *)
(* the ytdl default client and the yt-dlp binary file.                     *)
(***************************************************************************)
ConcVariants == {"ytdl_robust", "ytdl_express", "ytdlp_standalone", "ytdlp_wrap"}

ReadyFile == [content |-> "complete", exec |-> TRUE]

ConcInit ==
  /\ UrlIdle /\ PureIdle /\ HandlerIdle
  /\ deployed \in ConcVariants
  /\ reqs = [r \in Requests |-> [IdleReq EXCEPT !.pc = "start"]]
  /\ defaultClient = "none"
  /\ binFile \in (IF deployed \in YtDlpVariants THEN {NoFile, ReadyFile} ELSE {NoFile})
  /\ writers = {}
  /\ ui = UiIdle

ConcReq == UNCHANGED ui /\ UNCHANGED deployed /\ UNCHANGED uvars /\ UNCHANGED hvars /\ UNCHANGED pvars

\* getInfoRobust, first iteration: ytdl.setDefaultClient?.(client) writes the
\* module-wide default, then ytdl.getInfo is awaited
ConcGetInfoStart ==
  \E r \in Requests :
    /\ deployed \in YtdlVariants
    /\ reqs[r].pc = "start"
    /\ LET client == clients(deployed)[1]
       IN  /\ defaultClient' = client
           /\ reqs' = [reqs EXCEPT ![r] = [@ EXCEPT !.pc = "getInfo", !.i = 1,
                                                    !.client = client]]
    /\ UNCHANGED <<binFile, writers>>
    /\ ConcReq

\* the awaited ytdl.getInfo settles: on success the handler goes on to
\* downloadFromInfo and awaits the pipeline; on failure the loop sets the next
\* client as the default and awaits getInfo again, or throws after the last
ConcGetInfoSettles ==
  \E r \in Requests : \E ok \in BOOLEAN :
    /\ deployed \in YtdlVariants
    /\ reqs[r].pc = "getInfo"
    /\ IF ok
         THEN /\ reqs' = [reqs EXCEPT ![r] = [@ EXCEPT !.pc = "download"]]
              /\ UNCHANGED defaultClient
         ELSE IF reqs[r].i < Len(clients(deployed))
           THEN LET client == clients(deployed)[reqs[r].i + 1]
                IN  /\ defaultClient' = client
                    /\ reqs' = [reqs EXCEPT ![r] = [@ EXCEPT !.i = @ + 1,
                                                             !.client = client]]
           ELSE /\ reqs' = [reqs EXCEPT ![r] = [@ EXCEPT !.pc = "done"]]
                /\ UNCHANGED defaultClient
    /\ UNCHANGED <<binFile, writers>>
    /\ ConcReq

\* await pipeline(readStream, fs.createWriteStream(filePath)) settles
ConcDownloadSettles ==
  \E r \in Requests :
    /\ deployed \in YtdlVariants
    /\ reqs[r].pc = "download"
    /\ reqs' = [reqs EXCEPT ![r] = [@ EXCEPT !.pc = "done"]]
    /\ UNCHANGED <<defaultClient, binFile, writers>>
    /\ ConcReq

\* ytDlp.execPromise([...]) is invoked on the binary file as it is now
InvokeBinary(rq, file) == [rq EXCEPT !.pc = "exec", !.binAtExec = file.content,
                                     !.i = IF file.exec THEN 1 ELSE 0]

\* if (!fs.existsSync(binPath)): a missing file starts the download; any
\* existing file is taken as the binary and invoked
ConcExistsSync ==
  \E r \in Requests :
    /\ deployed \in YtDlpVariants
    /\ reqs[r].pc = "start"
    /\ IF binFile.content = "missing"
         THEN reqs' = [reqs EXCEPT ![r] = [@ EXCEPT !.pc = "fetch"]]
         ELSE reqs' = [reqs EXCEPT ![r] = InvokeBinary(@, binFile)]
    /\ UNCHANGED <<defaultClient, binFile, writers>>
    /\ ConcReq

\* the awaited fetch of the release asset settles: fs.createWriteStream(binPath)
\* creates (or truncates) the file and the body is piped into it
ConcFetchSettles ==
  \E r \in Requests : \E ok \in BOOLEAN :
    /\ deployed \in YtDlpVariants
    /\ reqs[r].pc = "fetch"
    /\ IF ok
         THEN /\ binFile' = [binFile EXCEPT !.content = "partial"]
              /\ writers' = writers \cup {r}
              /\ reqs' = [reqs EXCEPT ![r] = [@ EXCEPT !.pc = "write"]]
         ELSE /\ reqs' = [reqs EXCEPT ![r] = [@ EXCEPT !.pc = "done"]]
              /\ UNCHANGED <<binFile, writers>>
    /\ UNCHANGED defaultClient
    /\ ConcReq

\* the awaited pipeline settles; fs.chmodSync(binPath, 0o755) follows, the path
\* is returned and the binary is invoked.  The file is whole only when no other
\* stream is still writing it.
ConcWriteSettles ==
  \E r \in Requests :
    /\ deployed \in YtDlpVariants
    /\ reqs[r].pc = "write"
    /\ writers' = writers \ {r}
    /\ binFile' = [content |-> IF writers' = {} THEN "complete" ELSE "partial",
                   exec |-> TRUE]
    /\ reqs' = [reqs EXCEPT ![r] = InvokeBinary(@, binFile')]
    /\ UNCHANGED defaultClient
    /\ ConcReq

\* the awaited ytDlp.execPromise settles
ConcExecSettles ==
  \E r \in Requests :
    /\ deployed \in YtDlpVariants
    /\ reqs[r].pc = "exec"
    /\ reqs' = [reqs EXCEPT ![r] = [@ EXCEPT !.pc = "done"]]
    /\ UNCHANGED <<defaultClient, binFile, writers>>
    /\ ConcReq

ConcNext ==
  \/ ConcGetInfoStart
  \/ ConcGetInfoSettles
  \/ ConcDownloadSettles
  \/ ConcExistsSync
  \/ ConcFetchSettles
  \/ ConcWriteSettles
  \/ ConcExecSettles

SpecConc == ConcInit /\ [][ConcNext]_vars

\* C25: two concurrent requests are independent: the client profile in effect
\* for a request's info fetch and download is the one that request selected,
\* never one set by an interleaved request.
C25_ClientProfileNotChangedByOthers ==
  \A r \in Requests :
    reqs[r].pc \in {"getInfo", "download"} => defaultClient = reqs[r].client

\* C26: under any interleaving of concurrent requests that find the yt-dlp
\* binary missing, two requests never write the binary file at the same time,
\* and no request invokes the binary before the file has been completely
\* written and marked executable.
C26_BinaryWholeBeforeUse ==
  /\ Cardinality(writers) <= 1
  /\ \A r \in Requests :
       reqs[r].pc \in {"exec", "done"} /\ reqs[r].binAtExec # "none" =>
         reqs[r].binAtExec = "complete" /\ reqs[r].i = 1

\* C27: every 200 response of a GET /transcript handler, raw or wrap=json,
\* carries the source-attribution header and a Content-Disposition file name
\* {videoId}.{ext} with ext "srt" for format "srt" and "txt" otherwise; with
\* wrap=json the body's format field equals that ext.
C27_ResponseHeadersAndFormat ==
  Applied("successResponse") =>
    LET ext == IF farg.format = "srt" THEN "srt" ELSE "txt"
    IN  /\ fout.source # ""
        /\ fout.filename = <<farg.id, ".", ext>>
        /\ farg.wrap = "json" => fout.format = ext

\* a directory entry that is a regular file with a recognized audio extension
IsAudioFile(e) == e.isFile /\ \E x \in allowed : toLowerCase(e.ext) = x

\* C28: after yt-dlp finishes, the file passed to transcription is a regular
\* file of the temp directory with a recognized audio extension and is at least
\* as large as every other such file; when there is no such file the request
\* fails and no transcription call is made.
C28_LargestAudioFileTranscribed ==
  Applied("pickAudioFile") =>
    IF \E i \in 1..Len(farg) : IsAudioFile(farg[i])
      THEN /\ fout.transcribed /\ fout.status = 0
           /\ fout.filePath \in 1..Len(farg)
           /\ IsAudioFile(farg[fout.filePath])
           /\ \A j \in 1..Len(farg) :
                IsAudioFile(farg[j]) => farg[fout.filePath].size >= farg[j].size
      ELSE ~fout.transcribed /\ fout.status >= 400

C28_Witness ==
  /\ Applied("pickAudioFile") /\ Len(farg) = 3
  /\ farg[1].size = 1 /\ IsAudioFile(farg[1])
  /\ farg[2].size = 2 /\ ~IsAudioFile(farg[2])
  /\ farg[3].size = 2 /\ IsAudioFile(farg[3])
  /\ fout.filePath = 3

\* C29: every error response a handler sends (any 4xx/5xx from an acquisition
\* or transcription failure) contains a hint field next to the error message.
C29_ErrorResponsesCarryHint ==
  (pc = "done" /\ status >= 400 /\ failKind \in {"acquisition", "transcription"})
     => hint

\* C30: in the ytdl-core GET handlers the temp directory created for a request
\* is removed on every path after its creation (download failure 502,
\* transcription failure 500, success 200), and no temp directory is created
\* on paths that fail before the download step.
C30_YtdlTmpDirLifecycle ==
  (variant \in YtdlVariants /\ pc = "done") =>
     /\ tmpDir # "exists"
     /\ IF \E i \in 1..Len(calls) : calls[i][1] = "audio"
          THEN /\ tmpDir = "removed"
               /\ status = (CASE failKind = "acquisition" -> 502
                              [] failKind = "transcription" -> 500
                              [] OTHER -> 200)
          ELSE tmpDir = "none" /\ status >= 400

C30_Witness ==
  /\ variant \in YtdlVariants /\ pc = "done" /\ status = 500
  /\ failKind = "transcription" /\ tmpDir = "removed"
  /\ \E i \in 1..Len(calls) : calls[i][1] = "audio"

\* the positions at which a handler of each family waits for a step of its own
Stages(v) ==
  IF v \in PipedVariants THEN {"start", "streams", "download", "pipeline", "transcribe"}
  ELSE IF v \in {"ytdlp_standalone", "ytdlp_wrap"}
    THEN {"start", "ensure", "exec", "transcribe"}
  ELSE IF v = "ytdlp_express" THEN {"start", "exec", "transcribe"}
  ELSE IF v \in YtdlVariants THEN {"start", "getinfo", "download", "transcribe"}
  ELSE IF v \in CaptionVariants THEN {"start", "captions", "languages", "details"}
  ELSE {"start", "download", "transcribe"}

C32_EmptyResultDoesNotEndChain ==
  (variant \in CaptionVariants /\ pc = "done") =>
     \A k \in 1..Len(produced) :
        (produced[k] = "t_empty" /\ k < Len(methods(variant))) => Len(calls) > k

\* C33: normalizeYouTubeUrl is idempotent and agrees with extractVideoId: for
\* every input u, normalizeYouTubeUrl(normalizeYouTubeUrl(u)) =
\* normalizeYouTubeUrl(u) and extractVideoId(normalizeYouTubeUrl(u)) =
\* extractVideoId(u).
C33_NormalizeIdempotentAgreesWithExtract ==
  upc = "normalized" =>
     /\ normalizeYouTubeUrl(unorm) = unorm
     /\ extractVideoId(unorm) = uid

\* C34: every timeout timer armed by toMsTimeout is cleared before the
\* operation that armed it returns or throws (mirror query, audio download), so
\* no abort timer is pending once the handler has finished; the only time a
\* timer is pending is while the audio body is being piped to the file.
C34_TimersCleared ==
  /\ timers \in {0, 1}
  /\ timers = 1 => (pc = "pipeline" /\ explicitDeadline(variant, "audio"))
  /\ (pc = "pipeline" /\ explicitDeadline(variant, "audio")) => timers = 1
  /\ pc = "done" => timers = 0

C34_Witness ==
  /\ variant = "piped_multi_log" /\ pc = "done" /\ timers = 0
  /\ Len(produced) = 2 /\ produced[1] = "timeout" /\ produced[2] = "json_a"
  /\ Len(calls) = 3 /\ calls[3][1] = "audio" /\ status = 500

\* C36: the effective per-call timeouts are always positive integers: for every
\* value of PIPED_TIMEOUT_MS and AUDIO_TIMEOUT_MS (unset, empty, non-numeric,
\* zero, negative, positive) the timeout is greater than 0, and it is the
\* default (9000, 20000) when the configured value is not a positive integer.
C36_TimeoutsPositive ==
  (fpc = "output" /\ fn \in {"DEFAULT_TIMEOUT_STREAMS_MS", "DEFAULT_TIMEOUT_AUDIO_MS"}) =>
     LET dflt == IF fn = "DEFAULT_TIMEOUT_STREAMS_MS" THEN 9000 ELSE 20000
         isPositiveInteger == ~parseInt10(farg).nan /\ parseInt10(farg).n > 0
     IN  /\ fout > 0
         /\ ~isPositiveInteger => fout = dflt

(***************************************************************************)
(* The frontend component (App.jsx): the URL field, the submit handler     *)
(* fetchTranscript up to its await, and the settling of the awaited fetch. *)
(***************************************************************************)
UiUrls == { << >>, <<" ">>, <<" ", " ">>, ScenarioUrl }

\* !url.trim()
isBlank(s) == \A i \in 1..Len(s) : s[i] = " "

\* what the awaited fetch and body read come to: a transcript, an empty body,
\* a non-2xx answer with or without an error field, a thrown network error
FetchOutcomes == {"text", "empty", "http_error", "http_error_nojson", "throws"}

UiInit ==
  /\ UrlIdle /\ PureIdle /\ HandlerIdle
  /\ deployed = "none" /\ reqs = [r \in Requests |-> IdleReq]
  /\ defaultClient = "none" /\ binFile = NoFile /\ writers = {}
  /\ ui = UiIdle

UiReq ==
  /\ UNCHANGED uvars /\ UNCHANGED hvars /\ UNCHANGED pvars
  /\ UNCHANGED <<deployed, reqs, defaultClient, binFile, writers>>

\* onChange={(e) => setUrl(e.target.value)}
SetUrl ==
  /\ \E v \in UiUrls : v # ui.url /\ ui' = [ui EXCEPT !.url = v, !.last = "typed"]
  /\ UiReq

\* faulty variant: the submit button is never disabled
submitAlwaysEnabled(loading) == TRUE

\* <button type="submit" disabled={loading}>: the form cannot be submitted
\* while the flag is set
submitEnabled(loading) == ~loading

\* fetchTranscript up to `await fetch(...)`
Submit ==
  /\ submitEnabled(ui.loading)
  /\ ui.issued < MaxSubmits
  /\ IF isBlank(ui.url)
       THEN ui' = [ui EXCEPT !.error = "Please paste a YouTube link.", !.text = "",
                             !.last = "blank"]
       ELSE ui' = [ui EXCEPT !.error = "", !.text = "", !.loading = TRUE,
                             !.inflight = @ + 1, !.issued = @ + 1, !.last = "sent"]
  /\ UiReq

\* the rest of fetchTranscript once the fetch has settled: setText or, in the
\* catch, setError; finally setLoading(false)
Settle ==
  /\ ui.inflight > 0
  /\ \E o \in FetchOutcomes :
       ui' = [ui EXCEPT
                !.text = CASE o = "text" -> "transcript" [] o = "empty" -> ""
                           [] OTHER -> @,
                !.error = CASE o = "http_error" -> "error from server"
                            [] o = "http_error_nojson" -> "HTTP 500"
                            [] o = "throws" -> "Failed to fetch"
                            [] OTHER -> @,
                !.loading = FALSE,
                !.inflight = @ - 1,
                !.last = "settled"]
  /\ UiReq

UiNext == SetUrl \/ Submit \/ Settle

SpecUi == UiInit /\ [][UiNext]_vars

\* C35: in the frontend, whenever no transcript request is in flight the
\* loading flag is false, error and text are never both non-empty, and
\* submitting a blank URL sets an error without issuing a request or setting
\* loading.
C35_FrontendFlags ==
  /\ ui.inflight = 0 => ~ui.loading
  /\ ~(ui.error # "" /\ ui.text # "")
  /\ ui.last = "blank" =>
       /\ ui.error = "Please paste a YouTube link." /\ ui.text = ""
       /\ ~ui.loading /\ ui.inflight = 0

C35_Witness ==
  /\ ui.last = "blank" /\ ui.issued = 2 /\ ui.error # "" /\ ~ui.loading

====
